---------------------------- MODULE Spec2Model ----------------------------
(***************************************************************************)
(* A model of the sgp4 crate (neuromorphicsystems/sgp4): the Kozai to      *)
(* Brouwer conversion (Orbit::from_kozai_elements), the epoch              *)
(* initialisation (Constants::new), the deep space resonance integrator    *)
(* (ResonanceState::integrate) and the propagation entry points            *)
(* (Constants::initial_state, propagate_from_state, propagate,             *)
(* propagate_afspc_compatibility_mode).                                    *)
(*                                                                         *)
(* Number representation.  The crate computes with f64.  The model         *)
(* computes with a decimal fixed-point format:                             *)
(*   - dimensionless quantities, angles (rad) and lengths (earth radii)    *)
(*     are integers counting 10^-6 (FP = 10^6 stands for 1.0);             *)
(*   - mean motions, angular rates (rad/min) and their derivatives are     *)
(*     integers counting 10^-10, the resolution at which the thresholds    *)
(*     of the source (0.0034906585, 0.0052359877, ...) are whole numbers;  *)
(*   - times are whole minutes.                                            *)
(* The IEEE special values NaN, +inf and -inf are three reserved integers  *)
(* outside the range of the finite values, and the operators FAdd, FMul,   *)
(* FDiv, ... follow the IEEE rules for them.                               *)
(***************************************************************************)
EXTENDS Integers, Sequences, FiniteSets, TLC

\* ------------------------------------------------------------------------
\* Fixed-point arithmetic standing for the f64 operations of the source
\* ------------------------------------------------------------------------

\* 1.0 in the fixed-point format
FP == 10^6

\* f64::NAN, f64::INFINITY, f64::NEG_INFINITY
NaN == 2 * (2^30 - 1) + 1
PosInf == NaN - 1
NegInf == -PosInf

\* largest finite magnitude of the format; larger results overflow to +-inf
MaxFinite == 2147 * FP

IsNaN(x) == x = NaN

IsFinite(x) == x > NegInf /\ x < PosInf

Abs(x) == IF x < 0 THEN -x ELSE x

Sgn(x) == IF x < 0 THEN -1 ELSE IF x > 0 THEN 1 ELSE 0

\* division rounding toward zero (b > 0)
Quot(a, b) == IF a >= 0 THEN a \div b ELSE -((-a) \div b)

\* truncated remainder, the `%` of Rust: the sign of the dividend (b > 0)
Rem(a, b) == a - b * Quot(a, b)

\* Euclidean remainder, f64::rem_euclid (b > 0)
RemEuclid(a, b) == a % b

\* the operator % of f64 and f64::rem_euclid, NaN for a non-finite dividend
FRem(a, b) == IF IsFinite(a) THEN Rem(a, b) ELSE NaN

FRemEuclid(a, b) == IF IsFinite(a) THEN RemEuclid(a, b) ELSE NaN

Max(a, b) == IF a >= b THEN a ELSE b

\* a * b / 10^6 of two magnitudes, without leaving 32 bits
MulMag(a, b) ==
    LET ah == a \div 1000
        al == a % 1000
        bh == b \div 1000
        bl == b % 1000
    IN  ah * bh + (ah * bl) \div 1000 + (al * bh) \div 1000 + (al * bl) \div 1000000

MulOverflows(a, b) ==
    LET ah == a \div 1000
        bh == b \div 1000
    IN  \/ ah > 2147000
        \/ bh > 2147000
        \/ (bh > 0 /\ ah > 2146000000 \div bh)
        \/ (bh > 0 /\ ah >= 1000 /\ MulMag(a, b) > MaxFinite)

\* a * 10^6 / b of two magnitudes (b > 0), by long division
DivMag(a, b) ==
    IF b < 2000000
    THEN LET q0 == a \div b
             r0 == a % b
             d1 == (r0 * 1000) \div b
             r1 == (r0 * 1000) % b
             d2 == (r1 * 1000) \div b
         IN  q0 * 1000000 + d1 * 1000 + d2
    ELSE LET bb == b \div 1000
             q0 == a \div bb
             r0 == a % bb
         IN  q0 * 1000 + (r0 * 1000) \div bb

DivOverflows(a, b) ==
    IF b < 2000000 THEN a \div b > 2146 ELSE a \div (b \div 1000) > 2146000

\* f64 negation
FNeg(a) == IF IsNaN(a) THEN NaN ELSE -a

\* f64 addition
FAdd(a, b) ==
    IF IsNaN(a) \/ IsNaN(b) THEN NaN
    ELSE IF ~IsFinite(a) /\ ~IsFinite(b) THEN (IF a = b THEN a ELSE NaN)
    ELSE IF ~IsFinite(a) THEN a
    ELSE IF ~IsFinite(b) THEN b
    ELSE IF a > 0 /\ b > MaxFinite - a THEN PosInf
    ELSE IF a < 0 /\ b < (-MaxFinite) - a THEN NegInf
    ELSE a + b

\* f64 subtraction
FSub(a, b) == FAdd(a, FNeg(b))

\* f64 multiplication, a * b / 10^6
FMul(a, b) ==
    IF IsNaN(a) \/ IsNaN(b) THEN NaN
    ELSE IF ~IsFinite(a) \/ ~IsFinite(b)
         THEN (IF a = 0 \/ b = 0 THEN NaN
               ELSE IF Sgn(a) = Sgn(b) THEN PosInf ELSE NegInf)
    ELSE IF MulOverflows(Abs(a), Abs(b))
         THEN (IF Sgn(a) = Sgn(b) THEN PosInf ELSE NegInf)
    ELSE Sgn(a) * Sgn(b) * MulMag(Abs(a), Abs(b))

\* f64 division, a * 10^6 / b
FDiv(a, b) ==
    IF IsNaN(a) \/ IsNaN(b) THEN NaN
    ELSE IF ~IsFinite(a) /\ ~IsFinite(b) THEN NaN
    ELSE IF ~IsFinite(a) THEN (IF Sgn(a) * Sgn(b) >= 0 THEN PosInf ELSE NegInf)
    ELSE IF ~IsFinite(b) THEN 0
    ELSE IF b = 0 THEN (IF a = 0 THEN NaN ELSE IF a > 0 THEN PosInf ELSE NegInf)
    ELSE IF DivOverflows(Abs(a), Abs(b))
         THEN (IF Sgn(a) = Sgn(b) THEN PosInf ELSE NegInf)
    ELSE Sgn(a) * Sgn(b) * DivMag(Abs(a), Abs(b))

\* the f64 comparisons: every comparison with NaN is false
FLe(a, b) == ~IsNaN(a) /\ ~IsNaN(b) /\ a <= b

FLt(a, b) == ~IsNaN(a) /\ ~IsNaN(b) /\ a < b

FGe(a, b) == FLe(b, a)

FGt(a, b) == FLt(b, a)

\* f64::powi(2) and f64::powi(3)
Powi2(x) == FMul(x, x)

Powi3(x) == FMul(FMul(x, x), x)

\* the largest r in lo..hi-1 with r^2 <= n
RECURSIVE SqrtSearch(_, _, _)
SqrtSearch(n, lo, hi) ==
    IF hi - lo <= 1 THEN lo
    ELSE LET mid == (lo + hi) \div 2
         IN  IF mid * mid <= n THEN SqrtSearch(n, mid, hi) ELSE SqrtSearch(n, lo, mid)

\* the largest r in lo..hi-1 with r^3 <= n
RECURSIVE CbrtSearch(_, _, _)
CbrtSearch(n, lo, hi) ==
    IF hi - lo <= 1 THEN lo
    ELSE LET mid == (lo + hi) \div 2
         IN  IF mid * mid * mid <= n THEN CbrtSearch(n, mid, hi) ELSE CbrtSearch(n, lo, mid)

\* one Newton step of the square root of x from the guess s
SqrtNewton(x, s) == (s + DivMag(x, s)) \div 2

\* f64::sqrt: NaN below zero; a first digit-exact guess refined by two Newton steps
Sqrt(x) ==
    IF IsNaN(x) \/ x < 0 THEN NaN
    ELSE IF x = 0 \/ x = PosInf THEN x
    ELSE SqrtNewton(x, SqrtNewton(x, Max(SqrtSearch(x, 0, 46341) * 1000, 1)))

\* one Newton step of the cube root of x from the guess c
CbrtNewton(x, c) == (2 * c + DivMag(x, MulMag(c, c))) \div 3

\* the real cube root of a positive value, refined by two Newton steps
Cbrt(x) == CbrtNewton(x, CbrtNewton(x, Max(CbrtSearch(x, 0, 1291) * 10000, 10000)))

\* f64::powf(2.0 / 3.0): NaN for a negative base
Powf23(x) ==
    IF IsNaN(x) \/ x < 0 THEN NaN
    ELSE IF x = 0 \/ x = PosInf THEN x
    ELSE Powi2(Cbrt(x))

\* f64::powf(3.0 / 2.0) and f64::powf(1.5): NaN for a negative base
Powf15(x) ==
    IF IsNaN(x) \/ x < 0 THEN NaN
    ELSE IF x = 0 \/ x = PosInf THEN x
    ELSE FMul(x, Sqrt(x))

\* pi and 2 pi
Pi == 3141593
TwoPi == 6283185

Min(a, b) == IF a <= b THEN a ELSE b

\* Bhaskara's rational approximation of the sine for q = y (pi - y)
Bhaskara(q) == Min(DivMag(16 * q, 5 * MulMag(Pi, Pi) - 4 * q), FP)

\* sine of an angle of 0..pi
SinHalfTurn(y) == Bhaskara(MulMag(y, Pi - y))

\* sine of an angle of 0..2 pi
SinTurn(y) == IF y <= Pi THEN SinHalfTurn(y) ELSE -SinHalfTurn(y - Pi)

\* f64::sin: NaN for NaN and the infinities
Sin(x) == IF ~IsFinite(x) THEN NaN ELSE SinTurn(x % TwoPi)

\* f64::cos: NaN for NaN and the infinities
Cos(x) == IF ~IsFinite(x) THEN NaN ELSE Sin(x + Pi \div 2)

\* f64::atan of a magnitude 0..1 (z (pi/4 + 0.273 (1 - z)))
AtanUnit(z) == MulMag(z, Pi \div 4 + MulMag(273000, FP - z))

\* f64::atan2 of two magnitudes, in the first quadrant
AtanQuadrant(ay, ax) ==
    IF ay <= ax THEN AtanUnit(DivMag(ay, ax))
    ELSE Pi \div 2 - AtanUnit(DivMag(ax, ay))

\* the angle of the quadrant of (y, x) for the angle `first` of (|y|, |x|)
AtanSigned(y, x, first) ==
    IF y >= 0 THEN (IF x >= 0 THEN first ELSE Pi - first)
    ELSE (IF x >= 0 THEN -first ELSE -(Pi - first))

\* f64::atan2(y, x) of finite arguments
Atan2(y, x) ==
    IF IsNaN(y) \/ IsNaN(x) THEN NaN
    ELSE IF x = 0 /\ y = 0 THEN 0
    ELSE AtanSigned(y, x, AtanQuadrant(Abs(y), Abs(x)))

\* a time of t minutes as a multiplier: rate * Minutes(t) turns a quantity per
\* minute (counting 10^-10) into a quantity (counting 10^-6), and likewise one
\* level up (10^-14 per minute^2 into 10^-10 per minute)
Minutes(t) == 100 * t

\* x * 10^-6, the factor of the constants written c * 10^-6 in the source
Micro(x) == FMul(x, 1)

\* ------------------------------------------------------------------------
\* model.rs: the geopotential models
\* ------------------------------------------------------------------------

\* ke counts 10^-10, j2 and the ratio j3 / j2 count 10^-6, ae counts km
WGS84 == [ae |-> 6378137, ke |-> 743668532, j2 |-> 1083, j3 |-> -3, j4 |-> -2]

WGS72 == [ae |-> 6378135, ke |-> 743669161, j2 |-> 1083, j3 |-> -3, j4 |-> -2]

\* a caller-built Geopotential (the fields of the struct are public)
TinyKe == [ae |-> 6378137, ke |-> 1, j2 |-> 1083, j3 |-> -3, j4 |-> -2]

\* another one, of a third harmonic twice the second
StrongJ3 == [ae |-> 6378137, ke |-> 743668532, j2 |-> 1083, j3 |-> -2166, j4 |-> -2]

\* ------------------------------------------------------------------------
\* lib.rs: Orbit::from_kozai_elements
\* ------------------------------------------------------------------------

Err(message) == [tag |-> "Err", message |-> message]

Ok(value) == [tag |-> "Ok", value |-> value]

Pending == [tag |-> "Pending"]

None == [tag |-> "None"]

\* the local `mean_motion` of from_kozai_elements: n0 / (1 + d0)
brouwer_d0(a1, p0, d1) ==
    FDiv(p0,
         Powi2(FMul(a1,
                    FSub(FSub(FP, Powi2(d1)),
                         FMul(d1, FAdd(FDiv(FP, 3000000),
                                       FDiv(FMul(134000000, Powi2(d1)),
                                            81000000)))))))

brouwer_from(kozai_mean_motion, a1, p0) ==
    FDiv(kozai_mean_motion, FAdd(FP, brouwer_d0(a1, p0, FDiv(p0, Powi2(a1)))))

brouwer_mean_motion(geopotential, inclination, eccentricity, kozai_mean_motion) ==
    brouwer_from(kozai_mean_motion,
                 Powf23(FDiv(geopotential.ke, kozai_mean_motion)),
                 FDiv(FMul(FMul(750000, geopotential.j2),
                           FSub(FMul(3000000, Powi2(Cos(inclination))), FP)),
                      Powf15(FSub(FP, Powi2(eccentricity)))))

\* the check of the Brouwer mean motion and the Orbit of from_kozai_elements
brouwer_orbit(inclination, right_ascension, eccentricity, argument_of_perigee, mean_anomaly, mean_motion) ==
    IF FLe(mean_motion, 0)
    THEN Err("the Brouwer mean motion must be positive")
    ELSE Ok([inclination |-> inclination,
             right_ascension |-> right_ascension,
             eccentricity |-> eccentricity,
             argument_of_perigee |-> argument_of_perigee,
             mean_anomaly |-> mean_anomaly,
             mean_motion |-> mean_motion])

from_kozai_elements_unchecked(geopotential, inclination, right_ascension, eccentricity, argument_of_perigee, mean_anomaly, kozai_mean_motion) ==
    IF FLe(kozai_mean_motion, 0)
    THEN Err("the Kozai mean motion must be positive")
    ELSE Ok([inclination |-> inclination,
             right_ascension |-> right_ascension,
             eccentricity |-> eccentricity,
             argument_of_perigee |-> argument_of_perigee,
             mean_anomaly |-> mean_anomaly,
             mean_motion |-> brouwer_mean_motion(geopotential, inclination,
                                                 eccentricity, kozai_mean_motion)])

from_kozai_elements(geopotential, inclination, right_ascension, eccentricity, argument_of_perigee, mean_anomaly, kozai_mean_motion) ==
    IF FLe(kozai_mean_motion, 0)
    THEN Err("the Kozai mean motion must be positive")
    ELSE brouwer_orbit(inclination, right_ascension, eccentricity, argument_of_perigee,
                       mean_anomaly,
                       brouwer_mean_motion(geopotential, inclination, eccentricity,
                                           kozai_mean_motion))


\* ------------------------------------------------------------------------
\* deep_space.rs, lib.rs: program constants
\* ------------------------------------------------------------------------

\* 4.37526908801129966e-3 rad/min
SIDEREAL_SPEED == 43752690

SOLAR_ECCENTRICITY == 16750

LUNAR_ECCENTRICITY == 54900

\* 1.19459e-5 rad/min
SOLAR_MEAN_MOTION == 119459

\* 1.5835218e-4 rad/min
LUNAR_MEAN_MOTION == 1583521

\* 720 min
DELTA_T == 720

LAMBDA31 == 131309

LAMBDA22 == 2884319

LAMBDA33 == 374480

G22 == 5768639

G32 == 952408

G44 == 1801499

G52 == 1050833

G54 == 4410889

\* 2 pi / 225 rad/min, the limit between near earth and deep space orbits
NearEarthLimit == 279252680

\* the limits of the one-day resonance, 0.0034906585 and 0.0052359877 rad/min
OneDayLow == 34906585

OneDayHigh == 52359877

\* the limits of the half-day resonance, 8.26e-3 and 9.24e-3 rad/min, and 0.5
HalfDayLow == 82600000

HalfDayHigh == 92400000

HalfDayEccentricity == 500000

\* 220 km (counting metres, as geopotential.ae), the perigee above which
\* the high altitude terms are kept
HighAltitudePerigee == 220000

\* 1.0e-4, the eccentricity above which the elliptic terms are kept
EllipticEccentricity == 100

\* 0.2 rad, the inclination below which the Lyddane expressions are used
LyddaneInclination == 200000

\* ------------------------------------------------------------------------
\* deep_space.rs: the resonance coefficients of deep_space::constants
\* ------------------------------------------------------------------------

\* the one-day coefficients dr1, dr2, dr3 (counting 10^-14 rad/min^2);
\* p17 counts 10^-14, and each product starts with p17 and the 10^-6
\* constant so that the intermediate values stay in range
one_day_terms(p1, a0, e2, sin2, p17) ==
    [tag |-> "OneDay",
     dr1 |-> FDiv(FMul(FMul(Micro(FMul(p17, 2146075)),
                            FSub(FMul(FMul(937500, sin2),
                                      FAdd(FP, FMul(3000000, p1))),
                                 FMul(750000, FAdd(FP, p1)))),
                       FAdd(FP, FMul(2000000, e2))),
                  a0),
     dr2 |-> FMul(FMul(Micro(FMul(FMul(2000000, p17), 1789168)),
                       FMul(750000, Powi2(FAdd(FP, p1)))),
                  FAdd(FP, FMul(e2, FAdd(-2500000, FMul(812500, e2))))),
     dr3 |-> FDiv(FMul(FMul(Micro(FMul(FMul(3000000, p17), 221230)),
                            FMul(1875000, Powi3(FAdd(FP, p1)))),
                       FAdd(FP, FMul(e2, FAdd(-6000000, FMul(6609370, e2))))),
                  a0)]

one_day_resonance(orbit_0, p1, a0) ==
    one_day_terms(p1, a0, Powi2(orbit_0.eccentricity), Powi2(Sin(orbit_0.inclination)),
                  FMul(3000000, Powi2(FDiv(orbit_0.mean_motion, a0))))

\* c0 + c1 e + c2 e^2 + c3 e^3 with coefficients counting 10^-3, the result
\* counting 10^-6
Milli(sum) ==
    IF IsFinite(sum) /\ Abs(sum) <= 2147000 THEN 1000 * sum
    ELSE IF IsNaN(sum) THEN NaN
    ELSE IF sum > 0 THEN PosInf ELSE NegInf

Polynomial(c0, c1, c2, c3, e) ==
    Milli(FAdd(FAdd(c0, FMul(c1, e)), FAdd(FMul(c2, Powi2(e)), FMul(c3, Powi3(e)))))

\* the half-day coefficients (counting 10^-14 rad/min^2); p18..p21 count 10^-12
half_day_terms(e, p1, k14, sinI, p1_2, p18, p19, p20, p21, f220) ==
    LET g211 == IF FLe(e, 650000)
                THEN Polynomial(3616, -13247, 16290, 0, e)
                ELSE Polynomial(-72099, 331819, -508738, 266724, e)
        g310 == IF FLe(e, 650000)
                THEN Polynomial(-19302, 117390, -228419, 156591, e)
                ELSE Polynomial(-346844, 1582851, -2415925, 1246113, e)
        g322 == IF FLe(e, 650000)
                THEN Polynomial(-18907, 109793, -214633, 146582, e)
                ELSE Polynomial(-342585, 1554908, -2366899, 1215972, e)
        g410 == IF FLe(e, 650000)
                THEN Polynomial(-41122, 242694, -471094, 313953, e)
                ELSE Polynomial(-1052797, 4758686, -7193992, 3651957, e)
        g422 == IF FLe(e, 650000)
                THEN Polynomial(-146407, 841880, -1629014, 1083435, e)
                ELSE Polynomial(-3581690, 16178110, -24462770, 12422520, e)
        g520 == IF FLe(e, 650000)
                THEN Polynomial(-532114, 3017977, -5740032, 3708276, e)
                ELSE IF FLt(e, 715000)
                THEN Polynomial(1464740, -4664750, 3763640, 0, e)
                ELSE Polynomial(-5149660, 29936920, -54087360, 31324560, e)
        g532 == IF FLt(e, 700000)
                THEN Polynomial(-853666, 4690250, -8624770, 5341400, e)
                ELSE Polynomial(-40023880, 170470890, -242699480, 115605820, e)
        g521 == IF FLt(e, 700000)
                THEN Polynomial(-822711, 4568617, -8491415, 5337524, e)
                ELSE Polynomial(-51752104, 218913950, -309468160, 146349420, e)
        g533 == IF FLt(e, 700000)
                THEN Polynomial(-919228, 4988610, -9064770, 5542210, e)
                ELSE Polynomial(-37995780, 161616520, -229838200, 109377940, e)
        \* p * (c 10^-6) * f * g, from 10^-18 to 10^-14
        D(p, c, f, g) == FMul(FMul(FMul(FMul(p, c), f), g), 100)
    IN  [tag |-> "HalfDay",
         d2201 |-> D(p18, 1789168, f220,
                     FSub(-306000, FMul(FSub(e, 640000), 440000))),
         d2211 |-> D(p18, 1789168, FMul(1500000, Powi2(sinI)), g211),
         d3210 |-> D(p19, 373938,
                     FMul(FMul(1875000, sinI),
                          FSub(FSub(FP, FMul(2000000, p1)), FMul(3000000, p1_2))),
                     g310),
         d3222 |-> D(p19, 373938,
                     FMul(FMul(-1875000, sinI),
                          FSub(FAdd(FP, FMul(2000000, p1)), FMul(3000000, p1_2))),
                     g322),
         d4410 |-> D(FMul(2000000, p20), 7364,
                     FMul(FMul(35000000, Powi2(sinI)), f220), g410),
         d4422 |-> D(FMul(2000000, p20), 7364,
                     FMul(39375000, Powi2(Powi2(sinI))), g422),
         d5220 |-> D(p21, 114286,
                     FMul(FMul(9843750, sinI),
                          FAdd(FMul(Powi2(sinI),
                                    FSub(FSub(FP, FMul(2000000, p1)),
                                         FMul(5000000, p1_2))),
                               FMul(333333,
                                    FAdd(FAdd(-2000000, FMul(4000000, p1)),
                                         FMul(6000000, p1_2))))),
                     g520),
         d5232 |-> D(p21, 114286,
                     FMul(sinI,
                          FAdd(FMul(FMul(4921875, Powi2(sinI)),
                                    FAdd(FSub(-2000000, FMul(4000000, p1)),
                                         FMul(10000000, p1_2))),
                               FMul(6562500,
                                    FSub(FAdd(FP, FMul(2000000, p1)),
                                         FMul(3000000, p1_2))))),
                     g532),
         d5421 |-> D(FMul(2000000, p21), 2177,
                     FMul(FMul(29531250, sinI),
                          FAdd(FSub(2000000, FMul(8000000, p1)),
                               FMul(p1_2,
                                    FAdd(FAdd(-12000000, FMul(8000000, p1)),
                                         FMul(10000000, p1_2))))),
                     g521),
         d5433 |-> D(FMul(2000000, p21), 2177,
                     FMul(FMul(29531250, sinI),
                          FAdd(FSub(-2000000, FMul(8000000, p1)),
                               FMul(p1_2,
                                    FSub(FAdd(12000000, FMul(8000000, p1)),
                                         FMul(10000000, p1_2))))),
                     g533),
         k14 |-> k14]

\* p19, p20 and p21 from p18 and 1 / a0
half_day_powers(e, p1, k14, sinI, p1_2, inv_a0, p18) ==
    half_day_terms(e, p1, k14, sinI, p1_2, p18, FMul(p18, inv_a0),
                   FMul(FMul(p18, inv_a0), inv_a0),
                   FMul(FMul(FMul(p18, inv_a0), inv_a0), inv_a0),
                   FMul(750000, FAdd(FAdd(FP, FMul(2000000, p1)), p1_2)))

\* p18 from n0^2 (counting 10^-12) and 1 / a0
half_day_from(e, p1, k14, sinI, n2, inv_a0) ==
    half_day_powers(e, p1, k14, sinI, Powi2(p1), inv_a0,
                    FMul(FMul(3000000, n2), Powi2(inv_a0)))

half_day_resonance(orbit_0, p1, a0, k14) ==
    half_day_from(orbit_0.eccentricity, p1, k14, Sin(orbit_0.inclination),
                  Powi2(FMul(orbit_0.mean_motion, 100000)), FDiv(FP, a0))


\* ------------------------------------------------------------------------
\* lib.rs: Constants::new
\* ------------------------------------------------------------------------

\* (1.5e-12)^(-1/3): the division by the guard 1.5e-12 of p35 is three
\* multiplications by this number
InverseCubeRootOfGuard == 8735805

\* p32 .. p36 of the short-period terms for the inclination I, which are
\* k2 .. k6 of the near earth constants for I = I0
short_period_of(j3_j2, sinI, cosI) ==
        [p32 |-> FMul(FMul(-500000, j3_j2), sinI),
         p33 |-> FSub(FP, Powi2(cosI)),
         p34 |-> FSub(FMul(7000000, Powi2(cosI)), FP),
         p35 |-> IF FGt(Abs(FAdd(FP, cosI)), 0)
                 THEN FDiv(FMul(FMul(FMul(-250000, j3_j2), sinI),
                                FAdd(3000000, FMul(5000000, cosI))),
                           FAdd(FP, cosI))
                 ELSE FMul(FMul(FMul(FMul(FMul(FMul(-250000, j3_j2), sinI),
                                          FAdd(3000000, FMul(5000000, cosI))),
                                     InverseCubeRootOfGuard),
                                InverseCubeRootOfGuard),
                           InverseCubeRootOfGuard),
         p36 |-> FSub(FMul(3000000, Powi2(cosI)), FP)]

short_period_terms(geopotential, inclination) ==
    short_period_of(FDiv(geopotential.j3, geopotential.j2), Sin(inclination),
                    Cos(inclination))

\* p3 < 220.0 / geopotential.ae + 1.0, the test that leaves the high
\* altitude terms out
perigee_is_low(geopotential, p3) ==
    FLt(p3, FAdd(FDiv(HighAltitudePerigee, geopotential.ae), FP))

\* elliptic terms from 1.0e-4 on
is_elliptic_from_the_limit(orbit_0) == FGe(orbit_0.eccentricity, EllipticEccentricity)

\* orbit_0.eccentricity > 1.0e-4, the test that keeps the elliptic terms
is_elliptic(orbit_0) == FGt(orbit_0.eccentricity, EllipticEccentricity)

\* the Constants of a near earth propagator, k holding k2 .. k5
near_earth_with(geopotential, orbit_0, a0, eta, c1, c4, k0, k1, k6, k14, p3, p14, p15, terms, k) ==
        [geopotential |-> geopotential,
         right_ascension_dot |-> p14,
         argument_of_perigee_dot |-> k14,
         mean_anomaly_dot |-> p15,
         c1 |-> c1, c4 |-> c4, k0 |-> k0, k1 |-> k1,
         method |->
             [tag |-> "NearEarth", a0 |-> a0,
              k2 |-> k.p32, k3 |-> k.p33, k4 |-> k.p34, k5 |-> k.p35, k6 |-> k6,
              high_altitude |->
                  IF perigee_is_low(geopotential, p3)
                  THEN [tag |-> "No"]
                  ELSE [tag |-> "Yes",
                        c5 |-> terms.c5, d2 |-> terms.d2, d3 |-> terms.d3,
                        d4 |-> terms.d4, eta |-> eta,
                        k7 |-> Sin(orbit_0.mean_anomaly),
                        k8 |-> terms.k8, k9 |-> terms.k9, k10 |-> terms.k10,
                        elliptic |->
                            IF is_elliptic(orbit_0)
                            THEN [tag |-> "Yes",
                                  k11 |-> Powi3(FAdd(FP, FMul(eta, Cos(orbit_0.mean_anomaly)))),
                                  k12 |-> terms.k12, k13 |-> terms.k13]
                            ELSE [tag |-> "No"]]],
         orbit_0 |-> orbit_0]

near_earth_constants(geopotential, orbit_0, p1, a0, eta, c1, c4, k0, k1, k6, k14, p3, p14, p15, terms) ==
    near_earth_with(geopotential, orbit_0, a0, eta, c1, c4, k0, k1, k6, k14, p3,
                    p14, p15, terms,
                    short_period_terms(geopotential, orbit_0.inclination))

\* the two conditions of the resonance in deep_space::constants
IsOneDayInclusive(orbit_0) ==
    FLe(orbit_0.mean_motion, OneDayHigh) /\ FGe(orbit_0.mean_motion, OneDayLow)

IsOneDay(orbit_0) ==
    FLt(orbit_0.mean_motion, OneDayHigh) /\ FGt(orbit_0.mean_motion, OneDayLow)

IsHalfDay(orbit_0) ==
    /\ FGe(orbit_0.mean_motion, HalfDayLow)
    /\ FLe(orbit_0.mean_motion, HalfDayHigh)
    /\ FGe(orbit_0.eccentricity, HalfDayEccentricity)

deep_space_constants(geopotential, epoch_to_sidereal_time, epoch, orbit_0, p1, a0, c1, c4, k0, k1, k14, p14, p15, terms) ==
    LET solar_dots == terms.solar_dots
        lunar_dots == terms.lunar_dots
    IN  [geopotential |-> geopotential,
         right_ascension_dot |->
             FAdd(p14, FAdd(solar_dots.right_ascension, lunar_dots.right_ascension)),
         argument_of_perigee_dot |->
             FAdd(k14, FAdd(solar_dots.argument_of_perigee,
                            lunar_dots.argument_of_perigee)),
         mean_anomaly_dot |->
             FAdd(p15, FAdd(solar_dots.mean_anomaly, lunar_dots.mean_anomaly)),
         c1 |-> c1, c4 |-> c4, k0 |-> k0, k1 |-> k1,
         method |->
             [tag |-> "DeepSpace",
              eccentricity_dot |-> FAdd(solar_dots.eccentricity, lunar_dots.eccentricity),
              inclination_dot |-> FAdd(solar_dots.inclination, lunar_dots.inclination),
              solar_perturbations |-> terms.solar_perturbations,
              lunar_perturbations |-> terms.lunar_perturbations,
              resonant |->
                  IF IsOneDay(orbit_0) \/ IsHalfDay(orbit_0)
                  THEN LET sidereal_time_0 == epoch_to_sidereal_time[epoch]
                       IN  IF IsOneDay(orbit_0)
                           THEN [tag |-> "Yes",
                                 lambda_0 |->
                                     FRem(FSub(FAdd(FAdd(orbit_0.mean_anomaly,
                                                         orbit_0.right_ascension),
                                                    orbit_0.argument_of_perigee),
                                               sidereal_time_0),
                                          TwoPi),
                                 lambda_dot_0 |->
                                     FSub(FAdd(FAdd(FAdd(FSub(FAdd(p15, FAdd(k14, p14)),
                                                              SIDEREAL_SPEED),
                                                         FAdd(solar_dots.mean_anomaly,
                                                              lunar_dots.mean_anomaly)),
                                                    FAdd(solar_dots.argument_of_perigee,
                                                         lunar_dots.argument_of_perigee)),
                                               FAdd(solar_dots.right_ascension,
                                                    lunar_dots.right_ascension)),
                                          orbit_0.mean_motion),
                                 sidereal_time_0 |-> sidereal_time_0,
                                 resonance |-> one_day_resonance(orbit_0, p1, a0)]
                           ELSE [tag |-> "Yes",
                                 lambda_0 |->
                                     FRem(FSub(FSub(FAdd(FAdd(orbit_0.mean_anomaly,
                                                              orbit_0.right_ascension),
                                                         orbit_0.right_ascension),
                                                    sidereal_time_0),
                                               sidereal_time_0),
                                          TwoPi),
                                 lambda_dot_0 |->
                                     FSub(FAdd(FAdd(p15, FAdd(solar_dots.mean_anomaly,
                                                              lunar_dots.mean_anomaly)),
                                               FMul(2000000,
                                                    FSub(FAdd(p14,
                                                              FAdd(solar_dots.right_ascension,
                                                                   lunar_dots.right_ascension)),
                                                         SIDEREAL_SPEED))),
                                          orbit_0.mean_motion),
                                 sidereal_time_0 |-> sidereal_time_0,
                                 resonance |-> half_day_resonance(orbit_0, p1, a0, k14)]
                  ELSE [tag |-> "No", a0 |-> a0]],
         orbit_0 |-> orbit_0]

\* the condition of the branch of Constants::new between the near earth and
\* the deep space constants
is_near_earth_or_limit(orbit_0) == FGe(orbit_0.mean_motion, NearEarthLimit)

is_near_earth(orbit_0) == FGt(orbit_0.mean_motion, NearEarthLimit)

\* Constants::new is a chain of let bindings; each operator below computes a
\* few of them and hands them to the next one as arguments.  terms holds the
\* drag coefficients C1, C4, C5, D2 .. D4, k8 .. k10, k12, k13 and the tables of
\* third_body::perturbations_and_dots, which the callers of `new` supply.

\* the branch between the near earth and the deep space constants
new_method(geopotential, epoch_to_sidereal_time, epoch, orbit_0, terms, p1, a0, p3, eta, c1, c4, k0, k1, k6, k14, p14, p15) ==
    IF is_near_earth(orbit_0)
    THEN Ok(near_earth_constants(geopotential, orbit_0, p1, a0, eta, c1,
                                 c4, k0, k1, k6, k14, p3, p14, p15, terms))
    ELSE Ok(deep_space_constants(geopotential, epoch_to_sidereal_time, epoch,
                                 orbit_0, p1, a0, c1, c4, k0, k1, k14,
                                 p14, p15, terms))

\* p14, k14, p15, k0 and k1
new_rates(geopotential, epoch_to_sidereal_time, epoch, orbit_0, terms, p1, p2, a0, p3, eta, c1, c4, k6, b0, p11, p12, p13) ==
    new_method(geopotential, epoch_to_sidereal_time, epoch, orbit_0, terms, p1, a0, p3,
               eta, c1, c4,
               FMul(FMul(FMul(3500000, p2), FMul(FNeg(p11), p1)), c1),
               FMul(1500000, c1),
               k6,
               FAdd(FAdd(FMul(FMul(-500000, p11),
                              FSub(FP, FMul(5000000, Powi2(p1)))),
                         FMul(FMul(62500, p12),
                              FAdd(FSub(7000000, FMul(114000000, Powi2(p1))),
                                   FMul(395000000, Powi2(Powi2(p1)))))),
                    FMul(p13, FAdd(FSub(3000000, FMul(36000000, Powi2(p1))),
                                   FMul(49000000, Powi2(Powi2(p1)))))),
               FAdd(FMul(FNeg(p11), p1),
                    FMul(FAdd(FMul(FMul(500000, p12),
                                   FSub(4000000, FMul(19000000, Powi2(p1)))),
                              FMul(FMul(2000000, p13),
                                   FSub(3000000, FMul(7000000, Powi2(p1))))),
                         p1)),
               FAdd(FAdd(orbit_0.mean_motion,
                         FMul(FMul(FMul(500000, p11), b0), k6)),
                    FMul(FMul(FMul(62500, p12), b0),
                         FAdd(FSub(13000000, FMul(78000000, Powi2(p1))),
                              FMul(137000000, Powi2(Powi2(p1)))))))

\* p12 and p13
new_secular(geopotential, epoch_to_sidereal_time, epoch, orbit_0, terms, p1, p2, a0, p3, eta, c1, c4, k6, p10, p11) ==
    new_rates(geopotential, epoch_to_sidereal_time, epoch, orbit_0, terms, p1, p2, a0,
              p3, eta, c1, c4, k6, Sqrt(p2), p11,
              FMul(FMul(FMul(500000, p11), geopotential.j2), p10),
              FMul(FMul(FMul(-468750, geopotential.j4), Powi2(p10)),
                   orbit_0.mean_motion))

\* p11
new_p10(geopotential, epoch_to_sidereal_time, epoch, orbit_0, terms, p1, p2, a0, p3, eta, c1, c4, k6, p10) ==
    new_secular(geopotential, epoch_to_sidereal_time, epoch, orbit_0, terms, p1, p2, a0,
                p3, eta, c1, c4, k6, p10,
                FMul(FMul(FMul(1500000, geopotential.j2), p10), orbit_0.mean_motion))

\* eta, C1, C4 (zero without drag) and p10
new_xi(geopotential, epoch_to_sidereal_time, epoch, drag_term, orbit_0, terms, p1, p2, a0, p3, xi) ==
    new_p10(geopotential, epoch_to_sidereal_time, epoch, orbit_0, terms, p1, p2, a0, p3,
            FMul(FMul(a0, orbit_0.eccentricity), xi),
            IF drag_term = 0 THEN 0 ELSE terms.c1,
            IF drag_term = 0 THEN 0 ELSE terms.c4,
            FSub(FMul(3000000, Powi2(p1)), FP),
            FDiv(FP, Powi2(FMul(a0, p2))))

\* p5 (counting metres, as geopotential.ae) of the perigee height p4
new_p5(p4) ==
    IF FLt(p4, 98000) THEN 20000
    ELSE IF FLt(p4, 156000) THEN FSub(p4, 78000) ELSE 78000

\* p4, p5, s and xi
new_p3(geopotential, epoch_to_sidereal_time, epoch, drag_term, orbit_0, terms, p1, p2, a0, p3) ==
    new_xi(geopotential, epoch_to_sidereal_time, epoch, drag_term, orbit_0, terms, p1,
           p2, a0, p3,
           FDiv(FP, FSub(a0, FAdd(FDiv(new_p5(FMul(geopotential.ae, FSub(p3, FP))),
                                       geopotential.ae),
                                  FP))))

\* p3
new_a0(geopotential, epoch_to_sidereal_time, epoch, drag_term, orbit_0, terms, p1, p2, a0) ==
    new_p3(geopotential, epoch_to_sidereal_time, epoch, drag_term, orbit_0, terms, p1,
           p2, a0, FMul(a0, FSub(FP, orbit_0.eccentricity)))

new_closed_range(geopotential, epoch_to_sidereal_time, epoch, drag_term, orbit_0, terms) ==
    IF FLt(orbit_0.eccentricity, 0) \/ FGt(orbit_0.eccentricity, FP)
    THEN Err("the eccentricity must be in the range [0, 1[")
    ELSE new_a0(geopotential, epoch_to_sidereal_time, epoch, drag_term, orbit_0, terms,
                Cos(orbit_0.inclination),
                FSub(FP, Powi2(orbit_0.eccentricity)),
                Powf23(FDiv(geopotential.ke, orbit_0.mean_motion)))

\* Constants::new: the check of the eccentricity, p1, p2 and a0
new(geopotential, epoch_to_sidereal_time, epoch, drag_term, orbit_0, terms) ==
    IF FLt(orbit_0.eccentricity, 0) \/ FGe(orbit_0.eccentricity, FP)
    THEN Err("the eccentricity must be in the range [0, 1[")
    ELSE new_a0(geopotential, epoch_to_sidereal_time, epoch, drag_term, orbit_0, terms,
                Cos(orbit_0.inclination),
                FSub(FP, Powi2(orbit_0.eccentricity)),
                Powf23(FDiv(geopotential.ke, orbit_0.mean_motion)))

initial_state_one_day(self) ==
    IF self.method.tag = "NearEarth" THEN [tag |-> "None"]
    ELSE IF self.method.resonant.tag = "No" THEN [tag |-> "None"]
    ELSE IF self.method.resonant.resonance.tag = "HalfDay" THEN [tag |-> "None"]
    ELSE [tag |-> "Some", t |-> 0, mean_motion |-> self.orbit_0.mean_motion,
          lambda |-> self.method.resonant.lambda_0]

\* Constants::initial_state
initial_state(self) ==
    IF self.method.tag = "NearEarth" THEN [tag |-> "None"]
    ELSE IF self.method.resonant.tag = "No" THEN [tag |-> "None"]
    ELSE [tag |-> "Some", t |-> 0, mean_motion |-> self.orbit_0.mean_motion,
          lambda |-> self.method.resonant.lambda_0]


\* ------------------------------------------------------------------------
\* deep_space.rs: ResonanceState::integrate
\* ------------------------------------------------------------------------

\* the derivatives of the mean motion at the integrator's state:
\* ni_dot counts 10^-14 rad/min^2 and ni_ddot 10^-18 rad/min^3
one_day_derivatives(resonance, lambda_dot, x1, x2, x3) ==
    [lambda_dot |-> lambda_dot,
     ni_dot |-> FAdd(FAdd(FMul(resonance.dr1, Sin(x1)),
                          FMul(resonance.dr2, Sin(x2))),
                     FMul(resonance.dr3, Sin(x3))),
     ni_ddot |-> FMul(FAdd(FAdd(FMul(resonance.dr1, Cos(x1)),
                                FMul(FMul(2000000, resonance.dr2), Cos(x2))),
                           FMul(FMul(3000000, resonance.dr3), Cos(x3))),
                      lambda_dot)]

\* the sum of the ten half-day terms for the sines (c = 1) or the
\* cosines (c = 2) of the ten angles
half_day_sum(resonance, f2201, f2211, f3210, f3222, f4410, f4422, f5220, f5232, f5421, f5433, c) ==
    FAdd(FAdd(FAdd(FAdd(FAdd(FAdd(FMul(resonance.d2201, f2201),
                                  FMul(resonance.d2211, f2211)),
                             FMul(resonance.d3210, f3210)),
                        FMul(resonance.d3222, f3222)),
                   FMul(resonance.d5220, f5220)),
              FMul(resonance.d5232, f5232)),
         FMul(c, FAdd(FAdd(FAdd(FMul(resonance.d4410, f4410),
                                FMul(resonance.d4422, f4422)),
                           FMul(resonance.d5421, f5421)),
                      FMul(resonance.d5433, f5433))))

half_day_angles(resonance, lambda_dot, x2201, x2211, x3210, x3222, x4410, x4422, x5220, x5232, x5421, x5433) ==
    [lambda_dot |-> lambda_dot,
     ni_dot |-> half_day_sum(resonance, Sin(x2201), Sin(x2211), Sin(x3210),
                             Sin(x3222), Sin(x4410), Sin(x4422), Sin(x5220),
                             Sin(x5232), Sin(x5421), Sin(x5433), FP),
     ni_ddot |-> FMul(half_day_sum(resonance, Cos(x2201), Cos(x2211), Cos(x3210),
                                   Cos(x3222), Cos(x4410), Cos(x4422), Cos(x5220),
                                   Cos(x5232), Cos(x5421), Cos(x5433), 2000000),
                      lambda_dot)]

\* w is argument_of_perigee_i and l is self.lambda
half_day_derivatives(resonance, lambda_dot, w, l) ==
    half_day_angles(resonance, lambda_dot,
                    FSub(FAdd(FMul(2000000, w), l), G22),
                    FSub(l, G22),
                    FSub(FAdd(w, l), G32),
                    FSub(FAdd(FNeg(w), l), G32),
                    FSub(FAdd(FMul(2000000, w), FMul(2000000, l)), G44),
                    FSub(FMul(2000000, l), G44),
                    FSub(FAdd(w, l), G52),
                    FSub(FAdd(FNeg(w), l), G52),
                    FSub(FAdd(w, FMul(2000000, l)), G54),
                    FSub(FAdd(FNeg(w), FMul(2000000, l)), G54))

resonance_derivatives(self, argument_of_perigee_0, lambda_dot_0, resonance) ==
    IF resonance.tag = "OneDay"
    THEN one_day_derivatives(resonance, FAdd(self.mean_motion, lambda_dot_0),
                             FSub(self.lambda, LAMBDA31),
                             FMul(2000000, FSub(self.lambda, LAMBDA22)),
                             FMul(3000000, FSub(self.lambda, LAMBDA33)))
    ELSE half_day_derivatives(resonance, FAdd(self.mean_motion, lambda_dot_0),
                              FAdd(argument_of_perigee_0,
                                   FMul(resonance.k14, Minutes(self.t))),
                              self.lambda)

integrate_panics_on_magnitude(self, t) == Abs(t) < Abs(self.t)

\* the check on the target time, the first statement of integrate
integrate_panics(self, t) ==
    \/ self.t # 0 /\ (self.t > 0) # (t >= 0)
    \/ Abs(t) < Abs(self.t)

\* delta_t of integrate
integrate_delta_t(t) == IF ~IsNaN(t) /\ t > 0 THEN DELTA_T ELSE -DELTA_T

integrate_returns_early(self, t) ==
    IF t > 0 THEN t - integrate_delta_t(t) <= self.t
    ELSE t - integrate_delta_t(t) >= self.t

\* the loop returning once the integrator time is past the target
integrate_returns_past_target(self, t) ==
    IF IsNaN(t) THEN FALSE
    ELSE IF t > 0 THEN t < self.t
    ELSE t > self.t

\* the condition of the return statement in the loop of integrate:
\* partial_cmp is None for a NaN, which unwrap_or makes Equal
integrate_returns(self, t) ==
    IF IsNaN(t) THEN FALSE
    ELSE IF t > 0 THEN t - integrate_delta_t(t) < self.t
    ELSE t - integrate_delta_t(t) > self.t

\* DELTA_T.powi(2) / 2.0, as a multiplier two unit levels up
HalfDeltaTSquared == ((DELTA_T * DELTA_T) \div 2) \div 100

integrate_step_to_target(self, d, t) ==
    [tag |-> "Some",
     t |-> self.t + integrate_delta_t(t),
     mean_motion |->
         FAdd(self.mean_motion,
              FAdd(FMul(d.ni_dot, Minutes(t - self.t)),
                   FMul(d.ni_ddot, HalfDeltaTSquared))),
     lambda |->
         FAdd(self.lambda,
              FAdd(FMul(d.lambda_dot, Minutes(t - self.t)),
                   FMul(d.ni_dot, HalfDeltaTSquared)))]

\* the tail of the loop of integrate: one step of the integrator
integrate_step(self, d, t) ==
    [tag |-> "Some",
     t |-> self.t + integrate_delta_t(t),
     mean_motion |->
         FAdd(self.mean_motion,
              FAdd(FMul(d.ni_dot, Minutes(integrate_delta_t(t))),
                   FMul(d.ni_ddot, HalfDeltaTSquared))),
     lambda |->
         FAdd(self.lambda,
              FAdd(FMul(d.lambda_dot, Minutes(integrate_delta_t(t))),
                   FMul(d.ni_dot, HalfDeltaTSquared)))]

\* the returned pair (p28, p29) of integrate, with the state it leaves
integrate_result(self, d, geopotential, resonance, sidereal_time, t, p22, p23) ==
    LET dt == Minutes(t - self.t)
        half_dt2(x) == FMul(FMul(FMul(x, dt), dt), 500000)
    IN  [tag |-> "Ok", state |-> self,
         p28 |-> Powf23(FDiv(geopotential.ke,
                             FAdd(FAdd(self.mean_motion, FMul(d.ni_dot, dt)),
                                  half_dt2(d.ni_ddot)))),
         p29 |-> IF resonance.tag = "OneDay"
                 THEN FAdd(FSub(FSub(FAdd(FAdd(self.lambda, FMul(d.lambda_dot, dt)),
                                          half_dt2(d.ni_dot)),
                                     p22),
                                p23),
                           sidereal_time)
                 ELSE FAdd(FSub(FAdd(FAdd(self.lambda, FMul(d.lambda_dot, dt)),
                                     half_dt2(d.ni_dot)),
                                FMul(2000000, p22)),
                           FMul(2000000, sidereal_time))]

\* one turn of the loop of integrate for the derivatives d at the state
RECURSIVE integrate_loop(_, _, _, _, _, _, _, _, _)
integrate_turn(self, d, geopotential, argument_of_perigee_0, lambda_dot_0, resonance, sidereal_time, t, p22, p23) ==
    IF integrate_returns(self, t)
    THEN integrate_result(self, d, geopotential, resonance, sidereal_time, t, p22, p23)
    ELSE integrate_loop(integrate_step(self, d, t), geopotential,
                        argument_of_perigee_0, lambda_dot_0, resonance,
                        sidereal_time, t, p22, p23)

\* the loop of integrate
integrate_loop(self, geopotential, argument_of_perigee_0, lambda_dot_0, resonance, sidereal_time, t, p22, p23) ==
    integrate_turn(self,
                   resonance_derivatives(self, argument_of_perigee_0, lambda_dot_0,
                                         resonance),
                   geopotential, argument_of_perigee_0, lambda_dot_0, resonance,
                   sidereal_time, t, p22, p23)

integrate(self, geopotential, argument_of_perigee_0, lambda_dot_0, resonance, sidereal_time_0, t, p22, p23) ==
    IF integrate_panics(self, t)
    THEN [tag |-> "Panic", state |-> self,
          message |-> "the resonance integration state must be manually reset if the target times are non-monotonic"]
    ELSE integrate_loop(self, geopotential, argument_of_perigee_0, lambda_dot_0,
                        resonance,
                        FRem(FAdd(sidereal_time_0, FMul(SIDEREAL_SPEED, Minutes(t))),
                             TwoPi),
                        t, p22, p23)


\* ------------------------------------------------------------------------
\* third_body.rs, near earth and deep space orbital elements
\* ------------------------------------------------------------------------

\* the condition state.is_none() of the assertions of propagate_from_state
\* and deep_space_orbital_elements
state_is_anything(state) == TRUE

state_is_none(state) == state.tag = "None"

\* The third body's perturbations for the value fx of
\* long_period_periodic_effects
long_period_terms(self, fx) ==
    LET fx2 == FSub(FMul(500000, Powi2(Sin(fx))), 250000)
        fx3 == FMul(FMul(-500000, Sin(fx)), Cos(fx))
    IN  [delta_eccentricity |-> FAdd(FMul(self.kx0, fx2), FMul(self.kx1, fx3)),
         delta_inclination |-> FAdd(FMul(self.kx2, fx2), FMul(self.kx3, fx3)),
         delta_mean_motion |-> FAdd(FAdd(FMul(self.kx4, fx2), FMul(self.kx5, fx3)),
                                    FMul(self.kx6, Sin(fx))),
         p4 |-> FAdd(FAdd(FMul(self.kx7, fx2), FMul(self.kx8, fx3)),
                     FMul(self.kx9, Sin(fx))),
         p5 |-> FAdd(FMul(self.kx10, fx2), FMul(self.kx11, fx3))]

\* fx of long_period_periodic_effects for the third body's mean anomaly
long_period_fx(third_body_eccentricity, third_body_mean_anomaly) ==
    FAdd(third_body_mean_anomaly,
         FMul(FMul(2000000, third_body_eccentricity), Sin(third_body_mean_anomaly)))

\* Perturbations::long_period_periodic_effects
long_period_periodic_effects(self, third_body_eccentricity, third_body_mean_motion, t) ==
    long_period_terms(self,
        long_period_fx(third_body_eccentricity,
                       FAdd(self.third_body_mean_anomaly_0,
                            FMul(third_body_mean_motion, Minutes(t)))))

\* t (k1 + t (k8 + t (k9 + t k10))), the coefficients counting 10^-10,
\* 10^-14, 10^-18 and 10^-22
Horner(c1, c2, c3, c4, t) ==
    FMul(FAdd(c1, FMul(FAdd(c2, FMul(FAdd(c3, FMul(c4, Minutes(t))), Minutes(t))),
                       Minutes(t))),
         Minutes(t))

\* the value near_earth_orbital_elements returns for the eccentricity p26
near_earth_checked(self, k2, k3, k4, k5, k6, p22, argument_of_perigee, mean_anomaly, a, p26) ==
    IF ~(FGe(p26, -1000) /\ FLt(p26, FP))
    THEN Err("diverging eccentricity")
    ELSE Ok([orbit |-> [inclination |-> self.orbit_0.inclination,
                        right_ascension |-> p22,
                        eccentricity |-> Max(p26, 1),
                        argument_of_perigee |-> argument_of_perigee,
                        mean_anomaly |-> mean_anomaly,
                        mean_motion |-> FDiv(self.geopotential.ke, Powf15(a))],
             a |-> a, p32 |-> k2, p33 |-> k3, p34 |-> k4, p35 |-> k5, p36 |-> k6])

\* p26 = e0 - (C4 t + C5 (sin p25 - k7)), without the C5 term below the
\* high altitude
near_earth_p26(self, high_altitude, t, p25) ==
    IF high_altitude.tag = "Yes"
    THEN FSub(self.orbit_0.eccentricity,
              FAdd(FMul(self.c4, Minutes(t)),
                   FMul(high_altitude.c5, FSub(Sin(p25), high_altitude.k7))))
    ELSE FSub(self.orbit_0.eccentricity, FMul(self.c4, Minutes(t)))

\* a, M and p26 of the two arms of the match on high_altitude, for p25
near_earth_with_p25(self, a0, k2, k3, k4, k5, k6, high_altitude, t, p22, argument_of_perigee, p25) ==
    IF high_altitude.tag = "Yes"
    THEN near_earth_checked(
             self, k2, k3, k4, k5, k6, p22, argument_of_perigee,
             FAdd(p25, FMul(FMul(self.orbit_0.mean_motion,
                                 Horner(self.k1, high_altitude.k8, high_altitude.k9,
                                        high_altitude.k10, t)),
                            Minutes(t))),
             FMul(a0, Powi2(FSub(FP, Horner(self.c1, high_altitude.d2,
                                            high_altitude.d3, high_altitude.d4, t)))),
             near_earth_p26(self, high_altitude, t, p25))
    ELSE near_earth_checked(
             self, k2, k3, k4, k5, k6, p22, argument_of_perigee,
             FAdd(p25, FMul(FMul(FMul(self.orbit_0.mean_motion, self.k1),
                                 Minutes(t)), Minutes(t))),
             FMul(a0, Powi2(FSub(FP, FMul(self.c1, Minutes(t))))),
             near_earth_p26(self, high_altitude, t, p25))

\* the argument of perigee and p25 for p24 and the elliptic term
\* k13 ((1 + eta cos p24)^3 - k11) + k12 t, zero without it
near_earth_with_p24(self, a0, k2, k3, k4, k5, k6, high_altitude, t, p22, p23, p24, elliptic_p) ==
    near_earth_with_p25(self, a0, k2, k3, k4, k5, k6, high_altitude, t, p22,
                        IF high_altitude.tag = "Yes" THEN FSub(p23, elliptic_p) ELSE p23,
                        IF high_altitude.tag = "Yes" THEN FAdd(p24, elliptic_p) ELSE p24)

near_earth_elliptic_term(high_altitude, t, p24) ==
    IF high_altitude.tag = "Yes" /\ high_altitude.elliptic.tag = "Yes"
    THEN FAdd(FMul(high_altitude.elliptic.k13,
                   FSub(Powi3(FAdd(FP, FMul(high_altitude.eta, Cos(p24)))),
                        high_altitude.elliptic.k11)),
              FMul(high_altitude.elliptic.k12, Minutes(t)))
    ELSE 0

near_earth_elliptic(self, a0, k2, k3, k4, k5, k6, high_altitude, t, p22, p23, p24) ==
    near_earth_with_p24(self, a0, k2, k3, k4, k5, k6, high_altitude, t, p22, p23, p24,
                        near_earth_elliptic_term(high_altitude, t, p24))

\* Constants::near_earth_orbital_elements
near_earth_orbital_elements(self, a0, k2, k3, k4, k5, k6, high_altitude, t, p22, p23) ==
    near_earth_elliptic(self, a0, k2, k3, k4, k5, k6, high_altitude, t, p22, p23,
                        FAdd(self.orbit_0.mean_anomaly,
                             FMul(self.mean_anomaly_dot, Minutes(t))))

lyddane_angles_around_the_modulo(inclination, delta_inclination, p4, p22, p23, afspc_compatibility_mode, p30) ==
    LET right_ascension ==
            IF FLt(p30, FSub(FRemEuclid(p22, TwoPi), Pi)) THEN FAdd(p30, TwoPi)
            ELSE IF FGt(p30, FAdd(FRemEuclid(p22, TwoPi), Pi)) THEN FSub(p30, TwoPi)
            ELSE p30
    IN  [right_ascension |-> right_ascension,
         argument_of_perigee |->
             FSub(FAdd(FAdd(p23, p4),
                       FMul(Cos(inclination), FSub(FRem(p22, TwoPi), right_ascension))),
                  FMul(FMul(delta_inclination,
                            IF afspc_compatibility_mode THEN FRemEuclid(p22, TwoPi)
                            ELSE FRem(p22, TwoPi)),
                       Sin(inclination)))]

\* the right ascension and the argument of perigee of the Lyddane branch
\* of deep_space_orbital_elements (inclination < 0.2 rad) for the value of p30
lyddane_angles(inclination, delta_inclination, p4, p22, p23, afspc_compatibility_mode, p30) ==
    LET right_ascension ==
            IF FLt(p30, FSub(FRem(p22, TwoPi), Pi)) THEN FAdd(p30, TwoPi)
            ELSE IF FGt(p30, FAdd(FRem(p22, TwoPi), Pi)) THEN FSub(p30, TwoPi)
            ELSE p30
    IN  [right_ascension |-> right_ascension,
         argument_of_perigee |->
             FSub(FAdd(FAdd(p23, p4),
                       FMul(Cos(inclination), FSub(FRem(p22, TwoPi), right_ascension))),
                  FMul(FMul(delta_inclination,
                            IF afspc_compatibility_mode THEN FRemEuclid(p22, TwoPi)
                            ELSE FRem(p22, TwoPi)),
                       Sin(inclination)))]

\* p30 of the Lyddane branch of deep_space_orbital_elements
lyddane_p30(inclination, delta_inclination, p5, p22) ==
    Atan2(FAdd(FMul(Sin(inclination), Sin(p22)),
               FAdd(FMul(p5, Cos(p22)),
                    FMul(FMul(delta_inclination, Cos(inclination)), Sin(p22)))),
          FAdd(FMul(Sin(inclination), Cos(p22)),
               FAdd(FMul(FNeg(p5), Sin(p22)),
                    FMul(FMul(delta_inclination, Cos(inclination)), Cos(p22)))))

lyddane(inclination, delta_inclination, p4, p5, p22, p23, afspc_compatibility_mode) ==
    lyddane_angles(inclination, delta_inclination, p4, p22, p23, afspc_compatibility_mode,
                   lyddane_p30(inclination, delta_inclination, p5, p22))

\* the first match of deep_space_orbital_elements: (p28, p29) and the
\* caller's state, or the panic of an assertion
integrated_elements(self, resonant, state, t, p22, p23) ==
    IF resonant.tag = "No"
    THEN IF ~state_is_none(state)
         THEN [tag |-> "Panic", state |-> state,
               message |-> "state must be None with a non-resonant deep-space propagator"]
         ELSE [tag |-> "Ok", state |-> state, p28 |-> resonant.a0,
               p29 |-> FAdd(self.orbit_0.mean_anomaly,
                            FMul(self.mean_anomaly_dot, Minutes(t)))]
    ELSE IF state.tag = "Some"
         THEN integrate(state, self.geopotential, self.orbit_0.argument_of_perigee,
                        resonant.lambda_dot_0, resonant.resonance,
                        resonant.sidereal_time_0, t, p22, p23)
         ELSE [tag |-> "Panic", state |-> state,
               message |-> "state cannot be None with a deep space propagator"]

\* the sums of the solar and the lunar perturbations, with the inclination
\* and p31
perturbed(self, eccentricity_dot, inclination_dot, solar, lunar, t) ==
    [delta_inclination |-> FAdd(solar.delta_inclination, lunar.delta_inclination),
     inclination |-> FAdd(FAdd(self.orbit_0.inclination,
                               FMul(inclination_dot, Minutes(t))),
                          FAdd(solar.delta_inclination, lunar.delta_inclination)),
     p4 |-> FAdd(solar.p4, lunar.p4),
     p5 |-> FAdd(solar.p5, lunar.p5),
     p31 |-> FSub(FAdd(self.orbit_0.eccentricity, FMul(eccentricity_dot, Minutes(t))),
                  FMul(self.c4, Minutes(t))),
     delta_eccentricity |-> FAdd(solar.delta_eccentricity, lunar.delta_eccentricity),
     delta_mean_motion |-> FAdd(solar.delta_mean_motion, lunar.delta_mean_motion)]

perturbed_angles_lyddane_below_one(d, p22, p23, afspc_compatibility_mode) ==
    IF FGe(d.inclination, FP)
    THEN [right_ascension |-> FAdd(p22, FDiv(d.p5, Sin(d.inclination))),
          argument_of_perigee |->
              FSub(FAdd(p23, d.p4),
                   FMul(Cos(d.inclination), FDiv(d.p5, Sin(d.inclination))))]
    ELSE lyddane(d.inclination, d.delta_inclination, d.p4, d.p5, p22, p23,
                 afspc_compatibility_mode)

\* the right ascension and the argument of perigee of
\* deep_space_orbital_elements
perturbed_angles(d, p22, p23, afspc_compatibility_mode) ==
    IF FGe(d.inclination, LyddaneInclination)
    THEN [right_ascension |-> FAdd(p22, FDiv(d.p5, Sin(d.inclination))),
          argument_of_perigee |->
              FSub(FAdd(p23, d.p4),
                   FMul(Cos(d.inclination), FDiv(d.p5, Sin(d.inclination))))]
    ELSE lyddane(d.inclination, d.delta_inclination, d.p4, d.p5, p22, p23,
                 afspc_compatibility_mode)

perturbed_elements_clamping_the_sum(self, integrated, d, t, angles, a, p) ==
    [orbit |-> [inclination |-> d.inclination,
                right_ascension |-> angles.right_ascension,
                eccentricity |-> Max(FAdd(d.p31, d.delta_eccentricity), 1),
                argument_of_perigee |-> angles.argument_of_perigee,
                mean_anomaly |->
                    FAdd(FAdd(integrated.p29, d.delta_mean_motion),
                         FMul(FMul(FMul(self.orbit_0.mean_motion, self.k1),
                                   Minutes(t)), Minutes(t))),
                mean_motion |-> FDiv(self.geopotential.ke, Powf15(a))],
     a |-> a, p32 |-> p.p32, p33 |-> p.p33, p34 |-> p.p34,
     p35 |-> p.p35, p36 |-> p.p36]

\* the value deep_space_orbital_elements returns
perturbed_elements(self, integrated, d, t, angles, a, p) ==
    [orbit |-> [inclination |-> d.inclination,
                right_ascension |-> angles.right_ascension,
                eccentricity |-> FAdd(Max(d.p31, 1), d.delta_eccentricity),
                argument_of_perigee |-> angles.argument_of_perigee,
                mean_anomaly |->
                    FAdd(FAdd(integrated.p29, d.delta_mean_motion),
                         FMul(FMul(FMul(self.orbit_0.mean_motion, self.k1),
                                   Minutes(t)), Minutes(t))),
                mean_motion |-> FDiv(self.geopotential.ke, Powf15(a))],
     a |-> a, p32 |-> p.p32, p33 |-> p.p33, p34 |-> p.p34,
     p35 |-> p.p35, p36 |-> p.p36]

checked_elements_without_perturbed(self, integrated, d, t, p22, p23, afspc_compatibility_mode) ==
    IF integrated.tag = "Panic" THEN integrated
    ELSE IF ~(FGe(d.p31, -1000) /\ FLt(d.p31, FP))
    THEN [tag |-> "Err", state |-> integrated.state,
          message |-> "diverging eccentricity"]
    ELSE [tag |-> "Ok", state |-> integrated.state,
          value |-> perturbed_elements(
                        self, integrated, d, t,
                        perturbed_angles(d, p22, p23, afspc_compatibility_mode),
                        FMul(integrated.p28, Powi2(FSub(FP, FMul(self.c1, Minutes(t))))),
                        short_period_terms(self.geopotential, d.inclination))]

\* the checks of the eccentricity of deep_space_orbital_elements
checked_elements(self, integrated, d, t, p22, p23, afspc_compatibility_mode) ==
    IF integrated.tag = "Panic" THEN integrated
    ELSE IF ~(FGe(d.p31, -1000) /\ FLt(d.p31, FP))
    THEN [tag |-> "Err", state |-> integrated.state,
          message |-> "diverging eccentricity"]
    ELSE IF ~(FGe(FAdd(Max(d.p31, 1), d.delta_eccentricity), 0)
              /\ FLe(FAdd(Max(d.p31, 1), d.delta_eccentricity), FP))
    THEN [tag |-> "Err", state |-> integrated.state,
          message |-> "diverging perturbed eccentricity"]
    ELSE [tag |-> "Ok", state |-> integrated.state,
          value |-> perturbed_elements(
                        self, integrated, d, t,
                        perturbed_angles(d, p22, p23, afspc_compatibility_mode),
                        FMul(integrated.p28, Powi2(FSub(FP, FMul(self.c1, Minutes(t))))),
                        short_period_terms(self.geopotential, d.inclination))]

\* the perturbations of deep_space_orbital_elements
perturbed_by(self, eccentricity_dot, inclination_dot, integrated, solar, lunar, t, p22, p23, afspc_compatibility_mode) ==
    checked_elements(self, integrated,
                     perturbed(self, eccentricity_dot, inclination_dot, solar, lunar, t),
                     t, p22, p23, afspc_compatibility_mode)

deep_space_orbital_elements_checking_first(self, eccentricity_dot, inclination_dot, solar_perturbations, lunar_perturbations, resonant, state, t, p22, p23, afspc_compatibility_mode) ==
    IF checked_elements(self, integrated_elements(self, resonant, state, t, p22, p23),
                        perturbed(self, eccentricity_dot, inclination_dot,
                                  long_period_periodic_effects(solar_perturbations,
                                      SOLAR_ECCENTRICITY, SOLAR_MEAN_MOTION, t),
                                  long_period_periodic_effects(lunar_perturbations,
                                      LUNAR_ECCENTRICITY, LUNAR_MEAN_MOTION, t), t),
                        t, p22, p23, afspc_compatibility_mode).tag = "Err"
    THEN [checked_elements(self, integrated_elements(self, resonant, state, t, p22, p23),
                           perturbed(self, eccentricity_dot, inclination_dot,
                                     long_period_periodic_effects(solar_perturbations,
                                         SOLAR_ECCENTRICITY, SOLAR_MEAN_MOTION, t),
                                     long_period_periodic_effects(lunar_perturbations,
                                         LUNAR_ECCENTRICITY, LUNAR_MEAN_MOTION, t), t),
                           t, p22, p23, afspc_compatibility_mode)
              EXCEPT !.state = state]
    ELSE checked_elements(self, integrated_elements(self, resonant, state, t, p22, p23),
                          perturbed(self, eccentricity_dot, inclination_dot,
                                    long_period_periodic_effects(solar_perturbations,
                                        SOLAR_ECCENTRICITY, SOLAR_MEAN_MOTION, t),
                                    long_period_periodic_effects(lunar_perturbations,
                                        LUNAR_ECCENTRICITY, LUNAR_MEAN_MOTION, t), t),
                          t, p22, p23, afspc_compatibility_mode)

\* Constants::deep_space_orbital_elements; state is the caller's
\* Option<&mut ResonanceState>, returned as the call leaves it
deep_space_orbital_elements(self, eccentricity_dot, inclination_dot, solar_perturbations, lunar_perturbations, resonant, state, t, p22, p23, afspc_compatibility_mode) ==
    perturbed_by(self, eccentricity_dot, inclination_dot,
                 integrated_elements(self, resonant, state, t, p22, p23),
                 long_period_periodic_effects(solar_perturbations, SOLAR_ECCENTRICITY,
                                              SOLAR_MEAN_MOTION, t),
                 long_period_periodic_effects(lunar_perturbations, LUNAR_ECCENTRICITY,
                                              LUNAR_MEAN_MOTION, t),
                 t, p22, p23, afspc_compatibility_mode)


\* ------------------------------------------------------------------------
\* lib.rs: Constants::propagate_from_state, propagate,
\* propagate_afspc_compatibility_mode
\* ------------------------------------------------------------------------

\* 1.0e-12, the tolerance of the Kepler iteration, as the smallest positive
\* number of the model
KeplerTolerance == 1

\* the number of iterations of the Kepler loop
KeplerIterations == 10

\* 0.95, the largest step of the Kepler iteration
KeplerStep == 950000

\* the for loop of propagate_from_state; i counts the iterations left
RECURSIVE kepler(_, _, _, _, _)
\* delta = (p38 - ayn cos(E + w) + axn sin(E + w) - (E + w))
\*         / (1 - cos(E + w) axn - sin(E + w) ayn)
kepler_delta(ew, p38, axn, ayn) ==
    FDiv(FSub(FAdd(FSub(p38, FMul(ayn, Cos(ew))), FMul(axn, Sin(ew))), ew),
         FSub(FSub(FP, FMul(Cos(ew), axn)), FMul(Sin(ew), ayn)))

\* the test of the break statement
kepler_converged(delta) == FLt(Abs(delta), KeplerTolerance)

kepler_next_unclamped(ew, delta) == FAdd(ew, delta)

\* E + w after the step delta, kept within -0.95 .. 0.95
kepler_next(ew, delta) ==
    FAdd(ew, IF FLt(delta, -KeplerStep) THEN -KeplerStep
             ELSE IF FGt(delta, KeplerStep) THEN KeplerStep
             ELSE delta)

\* the body of the loop after the computation of delta
kepler_step(ew, p38, axn, ayn, i, delta) ==
    IF kepler_converged(delta) THEN ew
    ELSE kepler(kepler_next(ew, delta), p38, axn, ayn, i - 1)

kepler(ew, p38, axn, ayn, i) ==
    IF i = 0 THEN ew
    ELSE kepler_step(ew, p38, axn, ayn, i, kepler_delta(ew, p38, axn, ayn))

\* The part of propagate_from_state after the orbital elements is a chain
\* of let bindings; each operator below computes a few of them and hands
\* them to the next one as arguments.

\* p37, axn, ayn, p38
kepler_inputs(elements) ==
    LET p37 == FDiv(FP, FMul(elements.a, FSub(FP, Powi2(elements.orbit.eccentricity))))
        axn == FMul(elements.orbit.eccentricity, Cos(elements.orbit.argument_of_perigee))
    IN  [axn |-> axn,
         ayn |-> FAdd(FMul(elements.orbit.eccentricity,
                           Sin(elements.orbit.argument_of_perigee)),
                      FMul(p37, elements.p32)),
         p38 |-> FRem(FAdd(FAdd(elements.orbit.mean_anomaly,
                                elements.orbit.argument_of_perigee),
                           FMul(FMul(p37, elements.p35), axn)),
                      TwoPi)]

\* p39, pl, p40, r, b
radius(a, q, ew) ==
    LET p39 == FAdd(Powi2(q.axn), Powi2(q.ayn))
    IN  [pl |-> FMul(a, FSub(FP, p39)),
         p40 |-> FSub(FMul(q.axn, Sin(ew)), FMul(q.ayn, Cos(ew))),
         r |-> FMul(a, FSub(FP, FAdd(FMul(q.axn, Cos(ew)), FMul(q.ayn, Sin(ew))))),
         b |-> Sqrt(FSub(FP, p39))]

\* r_dot, p41, p42, p43
in_plane(a, q, ew, g) ==
    LET p41 == FDiv(g.p40, FAdd(FP, g.b))
    IN  [r_dot |-> FDiv(FMul(Sqrt(a), g.p40), g.r),
         p42 |-> FMul(FDiv(a, g.r), FSub(FSub(Sin(ew), q.ayn), FMul(q.axn, p41))),
         p43 |-> FMul(FDiv(a, g.r), FAdd(FSub(Cos(ew), q.axn), FMul(q.ayn, p41)))]

\* u, p44, p45, p46 and J2 / (2 pl)
short_period_inputs(geopotential, g, h) ==
    LET half_j2_pl == FDiv(FMul(500000, geopotential.j2), g.pl)
    IN  [u |-> Atan2(h.p42, h.p43),
         p44 |-> FMul(FMul(2000000, h.p43), h.p42),
         p45 |-> FSub(FP, FMul(2000000, Powi2(h.p42))),
         half_j2_pl |-> half_j2_pl,
         p46 |-> FDiv(half_j2_pl, g.pl)]

\* rk, uk, Ik, the right ascension k, rk_dot, rfk_dot
short_period_corrections(geopotential, elements, g, h, k) ==
    [rk |-> FAdd(FMul(g.r, FSub(FP, FMul(FMul(FMul(1500000, k.p46), g.b), elements.p36))),
                 FMul(FMul(FMul(500000, k.half_j2_pl), elements.p33), k.p45)),
     uk |-> FSub(k.u, FMul(FMul(FMul(250000, k.p46), elements.p34), k.p44)),
     inclination_k |->
         FAdd(elements.orbit.inclination,
              FMul(FMul(FMul(FMul(1500000, k.p46), Cos(elements.orbit.inclination)),
                        Sin(elements.orbit.inclination)), k.p45)),
     right_ascension_k |->
         FAdd(elements.orbit.right_ascension,
              FMul(FMul(FMul(1500000, k.p46), Cos(elements.orbit.inclination)), k.p44)),
     rk_dot |-> FSub(h.r_dot,
                     FDiv(FMul(FMul(FMul(elements.orbit.mean_motion, k.half_j2_pl),
                                    elements.p33), k.p44),
                          geopotential.ke)),
     rfk_dot |-> FAdd(FDiv(Sqrt(g.pl), g.r),
                      FDiv(FMul(FMul(elements.orbit.mean_motion, k.half_j2_pl),
                                FAdd(FMul(elements.p33, k.p45),
                                     FMul(1500000, elements.p36))),
                           geopotential.ke))]

\* the sines and the cosines of the corrected angles
orientation(m) ==
    [sin_ra |-> Sin(m.right_ascension_k), cos_ra |-> Cos(m.right_ascension_k),
     sin_i |-> Sin(m.inclination_k), cos_i |-> Cos(m.inclination_k),
     sin_u |-> Sin(m.uk), cos_u |-> Cos(m.uk)]

\* u0, u1, u2 and the Prediction; the position counts metres and the
\* velocity 10^-7 km/s (speed is ae ke / 60)
teme(geopotential, m, o, speed) ==
    LET u0 == FAdd(FMul(FMul(FNeg(o.sin_ra), o.cos_i), o.sin_u), FMul(o.cos_ra, o.cos_u))
        u1 == FAdd(FMul(FMul(o.cos_ra, o.cos_i), o.sin_u), FMul(o.sin_ra, o.cos_u))
        u2 == FMul(o.sin_i, o.sin_u)
    IN  [position |-> <<FMul(FMul(m.rk, u0), geopotential.ae),
                        FMul(FMul(m.rk, u1), geopotential.ae),
                        FMul(FMul(m.rk, u2), geopotential.ae)>>,
         velocity |->
             <<FMul(FAdd(FMul(m.rk_dot, u0),
                         FMul(m.rfk_dot,
                              FSub(FMul(FMul(FNeg(o.sin_ra), o.cos_i), o.cos_u),
                                   FMul(o.cos_ra, o.sin_u)))),
                    speed),
               FMul(FAdd(FMul(m.rk_dot, u1),
                         FMul(m.rfk_dot,
                              FSub(FMul(FMul(o.cos_ra, o.cos_i), o.cos_u),
                                   FMul(o.sin_ra, o.sin_u)))),
                    speed),
               FMul(FAdd(FMul(m.rk_dot, u2), FMul(m.rfk_dot, FMul(o.sin_i, o.cos_u))),
                    speed)>>]

prediction_oriented(geopotential, m) ==
    teme(geopotential, m, orientation(m),
         FMul(geopotential.ae, FDiv(geopotential.ke, 60000000)))

prediction_corrected(geopotential, elements, g, h, k) ==
    prediction_oriented(geopotential,
                        short_period_corrections(geopotential, elements, g, h, k))

prediction_in_plane(geopotential, elements, g, h) ==
    prediction_corrected(geopotential, elements, g, h,
                         short_period_inputs(geopotential, g, h))

\* the check of the semi-latus rectum
prediction_radius(geopotential, elements, q, ew, g) ==
    IF FLt(g.pl, 0) THEN Err("negative semi-latus rectum")
    ELSE Ok(prediction_in_plane(geopotential, elements, g,
                                in_plane(elements.a, q, ew, g)))

prediction_solved(geopotential, elements, q, ew) ==
    prediction_radius(geopotential, elements, q, ew, radius(elements.a, q, ew))

prediction_kepler(geopotential, elements, q) ==
    prediction_solved(geopotential, elements, q,
                      kepler(q.p38, q.p38, q.axn, q.ayn, KeplerIterations))

prediction(self, elements) ==
    prediction_kepler(self.geopotential, elements, kepler_inputs(elements))

\* p22 = right ascension 0 + right ascension dot t + k0 t^2
secular_right_ascension(self, t) ==
    FAdd(FAdd(self.orbit_0.right_ascension, FMul(self.right_ascension_dot, Minutes(t))),
         FMul(FMul(self.k0, Minutes(t)), Minutes(t)))

\* p23 = argument of perigee 0 + argument of perigee dot t
secular_argument_of_perigee(self, t) ==
    FAdd(self.orbit_0.argument_of_perigee, FMul(self.argument_of_perigee_dot, Minutes(t)))

\* the end of propagate_from_state for the elements of a near earth
\* propagator: the `?` and the prediction; the caller's state is left alone
near_earth_outcome(self, state, elements) ==
    [outcome |-> IF elements.tag = "Err" THEN elements
                 ELSE prediction(self, elements.value),
     state |-> state]

\* the same for the elements of a deep space propagator
deep_space_outcome(self, elements) ==
    [outcome |-> IF elements.tag = "Ok" THEN prediction(self, elements.value)
                 ELSE [tag |-> elements.tag, message |-> elements.message],
     state |-> elements.state]

\* the match on self.method of propagate_from_state
propagate_with(self, t, state, afspc_compatibility_mode, p22, p23) ==
    IF self.method.tag = "NearEarth"
    THEN IF ~state_is_none(state)
         THEN [outcome |-> [tag |-> "Panic",
                            message |-> "state must be None with a near-earth propagator"],
               state |-> state]
         ELSE near_earth_outcome(self, state,
                  near_earth_orbital_elements(self, self.method.a0, self.method.k2,
                                              self.method.k3, self.method.k4,
                                              self.method.k5, self.method.k6,
                                              self.method.high_altitude, t, p22, p23))
    ELSE deep_space_outcome(self,
             deep_space_orbital_elements(self, self.method.eccentricity_dot,
                                         self.method.inclination_dot,
                                         self.method.solar_perturbations,
                                         self.method.lunar_perturbations,
                                         self.method.resonant, state, t, p22, p23,
                                         afspc_compatibility_mode))

states_after_shared(series, k, r) == [j \in DOMAIN series |-> r.state]

\* the states of the series once the call of series k returned r: state is
\* an exclusive reference, the call writes the state of its own series only
states_after(series, k, r) ==
    [j \in DOMAIN series |-> IF j = k THEN r.state ELSE series[j].state]

\* Constants::propagate_from_state: the outcome of the call (Ok, Err or
\* Panic) and the caller's state as the call leaves it
propagate_from_state(self, t, state, afspc_compatibility_mode) ==
    propagate_with(self, t, state, afspc_compatibility_mode,
                   secular_right_ascension(self, t), secular_argument_of_perigee(self, t))

propagate_in_compatibility_mode(self, t) ==
    propagate_from_state(self, t, initial_state(self), TRUE).outcome

\* Constants::propagate
propagate(self, t) == propagate_from_state(self, t, initial_state(self), FALSE).outcome

\* Constants::propagate_afspc_compatibility_mode
propagate_afspc_compatibility_mode(self, t) ==
    propagate_from_state(self, t, initial_state(self), TRUE).outcome

\* the results and the last state of a series of calls of
\* propagate_from_state made alone on state, up to its first panic
RECURSIVE alone(_, _, _, _)
alone_rest(self, calls, afspc_compatibility_mode, r) ==
    IF r.outcome.tag = "Panic" \/ Len(calls) = 1
    THEN [results |-> <<r.outcome>>, state |-> r.state]
    ELSE [results |-> <<r.outcome>>
                      \o alone(self, Tail(calls), r.state,
                               afspc_compatibility_mode).results,
          state |-> alone(self, Tail(calls), r.state, afspc_compatibility_mode).state]

alone(self, calls, state, afspc_compatibility_mode) ==
    IF calls = <<>>
    THEN [results |-> <<>>, state |-> state]
    ELSE alone_rest(self, calls, afspc_compatibility_mode,
                    propagate_from_state(self, Head(calls), state,
                                         afspc_compatibility_mode))

\* the first statement after p22 and p23 of propagate_from_state: the match
\* on self.method that gives the orbital elements or an error
orbital_elements(self, t, state, afspc_compatibility_mode) ==
    IF self.method.tag = "NearEarth"
    THEN near_earth_orbital_elements(self, self.method.a0, self.method.k2,
                                     self.method.k3, self.method.k4, self.method.k5,
                                     self.method.k6, self.method.high_altitude, t,
                                     secular_right_ascension(self, t),
                                     secular_argument_of_perigee(self, t))
    ELSE deep_space_orbital_elements(self, self.method.eccentricity_dot,
                                     self.method.inclination_dot,
                                     self.method.solar_perturbations,
                                     self.method.lunar_perturbations,
                                     self.method.resonant, state, t,
                                     secular_right_ascension(self, t),
                                     secular_argument_of_perigee(self, t),
                                     afspc_compatibility_mode)

\* p26 of near_earth_orbital_elements for p24 = M0 + M dot t
near_earth_secular_eccentricity(self, high_altitude, t, p24) ==
    near_earth_p26(self, high_altitude, t,
                   IF high_altitude.tag = "Yes"
                   THEN FAdd(p24, near_earth_elliptic_term(high_altitude, t, p24))
                   ELSE p24)

\* the sums of the perturbations of deep_space_orbital_elements at t
deep_space_perturbed(self, t) ==
    perturbed(self, self.method.eccentricity_dot, self.method.inclination_dot,
              long_period_periodic_effects(self.method.solar_perturbations,
                                           SOLAR_ECCENTRICITY, SOLAR_MEAN_MOTION, t),
              long_period_periodic_effects(self.method.lunar_perturbations,
                                           LUNAR_ECCENTRICITY, LUNAR_MEAN_MOTION, t),
              t)

\* the eccentricities that the orbital elements check: p26 (near earth),
\* p31 and max(p31, 1e-6) + (delta e solar + delta e lunar) (deep space)
deep_space_eccentricities(d) ==
    [tag |-> "DeepSpace", secular |-> d.p31,
     perturbed |-> FAdd(Max(d.p31, 1), d.delta_eccentricity)]

eccentricities(self, t) ==
    IF self.method.tag = "NearEarth"
    THEN [tag |-> "NearEarth",
          secular |-> near_earth_secular_eccentricity(
                          self, self.method.high_altitude, t,
                          FAdd(self.orbit_0.mean_anomaly,
                               FMul(self.mean_anomaly_dot, Minutes(t))))]
    ELSE deep_space_eccentricities(deep_space_perturbed(self, t))


\* ------------------------------------------------------------------------
\* Two-line element sets (tle.rs)
\* ------------------------------------------------------------------------

\* A line is a sequence of characters; Code gives the byte of each of the
\* characters that the lines below are made of.
Code ==
    ("0" :> 48) @@ ("1" :> 49) @@ ("2" :> 50) @@ ("3" :> 51) @@ ("4" :> 52)
    @@ ("5" :> 53) @@ ("6" :> 54) @@ ("7" :> 55) @@ ("8" :> 56) @@ ("9" :> 57)
    @@ (" " :> 32) @@ ("-" :> 45) @@ ("." :> 46)
    @@ ("A" :> 65) @@ ("C" :> 67) @@ ("E" :> 69) @@ ("N" :> 78) @@ ("S" :> 83)
    @@ ("U" :> 85) @@ ("X" :> 88)

\* (&b'0'..=&b'9').contains(&character)
IsAsciiDigit(character) == Code[character] >= Code["0"] /\ Code[character] <= Code["9"]

\* u8::is_ascii_whitespace, on the characters of Code
IsAsciiWhitespace(character) == character = " "

\* line[start..end]
Slice(line, start, end) == SubSeq(line, start + 1, end)

RECURSIVE trim_ascii_start_polyfill(_)
\* [u8]::trim_ascii_start_polyfill
trim_ascii_start_polyfill(bytes) ==
    IF bytes # <<>> /\ IsAsciiWhitespace(Head(bytes))
    THEN trim_ascii_start_polyfill(Tail(bytes))
    ELSE bytes

RECURSIVE trim_ascii_end(_)
\* the end of str::trim
trim_ascii_end(bytes) ==
    IF bytes # <<>> /\ IsAsciiWhitespace(bytes[Len(bytes)])
    THEN trim_ascii_end(SubSeq(bytes, 1, Len(bytes) - 1))
    ELSE bytes

RECURSIVE DigitsValue(_)
\* the number that a sequence of digits writes in base ten
DigitsValue(digits) ==
    IF digits = <<>> THEN 0
    ELSE 10 * DigitsValue(SubSeq(digits, 1, Len(digits) - 1))
         + (Code[digits[Len(digits)]] - Code["0"])

AllDigits(bytes) == bytes # <<>> /\ \A i \in DOMAIN bytes : IsAsciiDigit(bytes[i])

\* the digits of an integer after its sign
Unsigned(bytes) == IF bytes # <<>> /\ bytes[1] = "+" THEN Tail(bytes) ELSE bytes

Signed(bytes) == IF bytes # <<>> /\ bytes[1] \in {"+", "-"} THEN Tail(bytes) ELSE bytes

\* parse::<u8>(): an optional + and digits, the value at most 255
parse_u8(bytes) ==
    IF AllDigits(Unsigned(bytes)) /\ DigitsValue(Unsigned(bytes)) <= 255
    THEN [tag |-> "Ok", value |-> DigitsValue(Unsigned(bytes))]
    ELSE [tag |-> "Err"]

\* parse::<u64>() on a field of a line, which has five digits at most
parse_u64(bytes) ==
    IF AllDigits(Unsigned(bytes))
    THEN [tag |-> "Ok", value |-> DigitsValue(Unsigned(bytes))]
    ELSE [tag |-> "Err"]

\* parse::<i8>(): an optional sign and digits, the value within -128 .. 127
parse_i8(bytes) ==
    IF /\ AllDigits(Signed(bytes))
       /\ DigitsValue(Signed(bytes)) <= (IF bytes[1] = "-" THEN 128 ELSE 127)
    THEN [tag |-> "Ok",
          value |-> IF bytes[1] = "-" THEN -DigitsValue(Signed(bytes))
                    ELSE DigitsValue(Signed(bytes))]
    ELSE [tag |-> "Err"]

\* the characters before the decimal point
RECURSIVE IntegerPart(_)
IntegerPart(bytes) ==
    IF bytes = <<>> \/ Head(bytes) = "." THEN <<>>
    ELSE <<Head(bytes)>> \o IntegerPart(Tail(bytes))

\* a decimal number without exponent: digits around at most one point
IsDecimal(bytes) ==
    /\ \A i \in DOMAIN bytes : IsAsciiDigit(bytes[i]) \/ bytes[i] = "."
    /\ Cardinality({i \in DOMAIN bytes : bytes[i] = "."}) <= 1
    /\ \E i \in DOMAIN bytes : IsAsciiDigit(bytes[i])

\* parse::<f64>() on the characters of Code put in the float fields (no
\* exponent, inf or nan is written with them): the sign and the whole part
\* of the number
parse_f64(bytes) ==
    IF IsDecimal(Signed(bytes))
    THEN [tag |-> "Ok", negative |-> bytes[1] = "-",
          whole |-> DigitsValue(IntegerPart(Signed(bytes)))]
    ELSE [tag |-> "Err"]

\* the value of `x as u32` for the float of sign and whole part given
as_u32(float) == IF float.negative THEN 0 ELSE float.whole

TleError(what, line, start, end) ==
    [tag |-> "Err", what |-> what, line |-> line, start |-> start, end |-> end]

Panicked == [tag |-> "Panic"]

NoError == [tag |-> "Ok"]

\* [u8]::parse_decimal_point_assumed
parse_decimal_point_assumed(bytes, line, start, end) ==
    IF trim_ascii_start_polyfill(bytes) = <<>>
    THEN TleError("ExpectedFloatWithAssumedDecimalPoint", line, start, end)
    ELSE IF /\ Head(trim_ascii_start_polyfill(bytes)) = "-"
            /\ \/ Len(trim_ascii_start_polyfill(bytes)) < 2
               \/ Len(trim_ascii_start_polyfill(bytes)) + 1 > 16
    THEN TleError("FloatWithAssumedDecimalPointTooLong", line, start, end)
    ELSE IF /\ Head(trim_ascii_start_polyfill(bytes)) = "+"
            /\ \/ Len(trim_ascii_start_polyfill(bytes)) < 2
               \/ Len(trim_ascii_start_polyfill(bytes)) > 16
    THEN TleError("FloatWithAssumedDecimalPointTooLong", line, start, end)
    ELSE IF /\ Head(trim_ascii_start_polyfill(bytes)) \notin {"+", "-"}
            /\ Len(trim_ascii_start_polyfill(bytes)) + 1 > 16
    THEN TleError("FloatWithAssumedDecimalPointTooLong", line, start, end)
    ELSE IF parse_f64(IF Head(trim_ascii_start_polyfill(bytes)) = "-"
                      THEN <<"-", ".">> \o Tail(trim_ascii_start_polyfill(bytes))
                      ELSE IF Head(trim_ascii_start_polyfill(bytes)) = "+"
                      THEN <<".">> \o Tail(trim_ascii_start_polyfill(bytes))
                      ELSE <<".">> \o trim_ascii_start_polyfill(bytes)).tag = "Ok"
    THEN NoError
    ELSE TleError("ExpectedFloatWithAssumedDecimalPoint", line, start, end)

\* the sum of the fold over content[..68]: a digit counts its value, a
\* minus sign 1, every other character 0
RECURSIVE checksum_fold(_)
checksum_fold(content) ==
    IF content = <<>> THEN 0
    ELSE checksum_fold(SubSeq(content, 1, Len(content) - 1))
         + (IF content[Len(content)] = "-" THEN 1
            ELSE IF IsAsciiDigit(content[Len(content)])
            THEN Code[content[Len(content)]] - Code["0"]
            ELSE 0)

\* a - b on u8: below zero the build with overflow checks panics, the
\* build without wraps around
u8_sub(a, b, overflow_checks) ==
    IF a >= b THEN [tag |-> "Ok", value |-> a - b]
    ELSE IF overflow_checks THEN Panicked
    ELSE [tag |-> "Ok", value |-> a - b + 256]

\* the test of the checksum of a line of 69 characters: "Good", "Bad", or
\* "Panic" when content[68] - b'0' overflows
checksum(content, overflow_checks) ==
    IF u8_sub(Code[content[69]], Code["0"], overflow_checks).tag = "Panic" THEN "Panic"
    ELSE IF checksum_fold(Slice(content, 0, 68)) % 10
            # u8_sub(Code[content[69]], Code["0"], overflow_checks).value
    THEN "Bad"
    ELSE "Good"

\* the columns that the two for loops of from_lines test
Line1Spaces == <<1, 8, 17, 32, 43, 52, 61, 63>>

Line2Spaces == <<1, 7, 16, 25, 33, 42, 51>>

\* the first index of the list at which the line has no space, -1 if none
RECURSIVE first_not_space(_, _)
first_not_space(line, indexes) ==
    IF indexes = <<>> THEN -1
    ELSE IF line[Head(indexes) + 1] # " " THEN Head(indexes)
    ELSE first_not_space(line, Tail(indexes))

\* the first Err of a sequence of results, NoError if none
RECURSIVE first_error(_)
first_error(results) ==
    IF results = <<>> THEN NoError
    ELSE IF Head(results).tag = "Err" THEN Head(results)
    ELSE first_error(Tail(results))

\* the result of a parse as the ? operator sees it after map_err
or_error(parsed, what, line, start, end) ==
    IF parsed.tag = "Ok" THEN NoError ELSE TleError(what, line, start, end)

\* the years with 57 in the century of 2000
full_year_of_57_in_2000(year) == IF year <= 57 THEN 2000 + year ELSE 1900 + year

\* year if year < 57 => 2000 + year, year => 1900 + year
full_year(year) == IF year < 57 THEN 2000 + year ELSE 1900 + year

\* chrono::NaiveDate::from_yo_opt(year, ordinal).is_some()
from_yo_opt(year, ordinal) ==
    /\ ordinal >= 1
    /\ ordinal <= (IF year % 4 = 0 /\ (year % 100 # 0 \/ year % 400 = 0)
                   THEN 366 ELSE 365)

\* the date of the datetime field once the day and the year parsed
date_error(line1) ==
    IF /\ parse_f64(trim_ascii_start_polyfill(Slice(line1, 20, 32))).tag = "Ok"
       /\ parse_u8(Slice(line1, 18, 20)).tag = "Ok"
       /\ ~from_yo_opt(full_year(parse_u8(Slice(line1, 18, 20)).value),
                       as_u32(parse_f64(trim_ascii_start_polyfill(Slice(line1, 20, 32)))))
    THEN TleError("FromYoOptFailed", "Line1", 18, 20)
    ELSE NoError

\* the fields of the struct expression of from_lines after norad_id, in
\* the order of the expression: each is NoError or the error it returns
field_errors(line1, line2) ==
    <<IF line1[8] \in {"U", "C", "S"} THEN NoError
      ELSE TleError("UnknownClassification", "Line1", 7, 8),
      IF \A i \in 10 .. 17 : IsAsciiWhitespace(line1[i]) THEN NoError
      ELSE or_error(parse_u8(Slice(line1, 9, 11)), "ExpectedInteger", "Line1", 9, 11),
      or_error(parse_f64(trim_ascii_start_polyfill(Slice(line1, 20, 32))),
               "ExpectedFloat", "Line1", 20, 32),
      or_error(parse_u8(Slice(line1, 18, 20)), "ExpectedFloat", "Line1", 18, 20),
      date_error(line1),
      or_error(parse_f64(trim_ascii_start_polyfill(Slice(line1, 33, 43))),
               "ExpectedFloat", "Line1", 33, 43),
      parse_decimal_point_assumed(Slice(line1, 44, 50), "Line1", 44, 50),
      or_error(parse_i8(Slice(line1, 50, 52)), "ExpectedFloat", "Line1", 50, 52),
      parse_decimal_point_assumed(Slice(line1, 53, 59), "Line1", 53, 59),
      or_error(parse_i8(Slice(line1, 59, 61)), "ExpectedFloat", "Line1", 59, 61),
      or_error(parse_u8(trim_ascii_start_polyfill(Slice(line1, 62, 63))),
               "ExpectedInteger", "Line1", 62, 63),
      or_error(parse_u64(trim_ascii_start_polyfill(Slice(line1, 64, 68))),
               "ExpectedInteger", "Line1", 64, 68),
      or_error(parse_f64(trim_ascii_start_polyfill(Slice(line2, 8, 16))),
               "ExpectedFloat", "Line2", 8, 16),
      or_error(parse_f64(trim_ascii_start_polyfill(Slice(line2, 17, 25))),
               "ExpectedFloat", "Line2", 17, 25),
      parse_decimal_point_assumed(Slice(line2, 26, 33), "Line2", 26, 33),
      or_error(parse_f64(trim_ascii_start_polyfill(Slice(line2, 34, 42))),
               "ExpectedFloat", "Line2", 34, 42),
      or_error(parse_f64(trim_ascii_start_polyfill(Slice(line2, 43, 51))),
               "ExpectedFloat", "Line2", 43, 51),
      or_error(parse_f64(trim_ascii_start_polyfill(Slice(line2, 52, 63))),
               "ExpectedFloat", "Line2", 52, 63),
      or_error(parse_u64(trim_ascii_start_polyfill(Slice(line2, 63, 68))),
               "ExpectedInteger", "Line2", 63, 68)>>

\* the Elements of two lines whose fields all parse: the name, the number,
\* the classification, the designator and the date of the epoch
elements_of(line1, line2) ==
    [object_name |-> None,
     norad_id |-> parse_u64(trim_ascii_start_polyfill(Slice(line1, 2, 7))).value,
     classification |-> line1[8],
     international_designator |->
         IF \A i \in 10 .. 17 : IsAsciiWhitespace(line1[i]) THEN None
         ELSE [tag |-> "Some",
               launch_year |-> full_year(parse_u8(Slice(line1, 9, 11)).value),
               piece |-> trim_ascii_end(trim_ascii_start_polyfill(Slice(line1, 11, 17)))],
     year |-> full_year(parse_u8(Slice(line1, 18, 20)).value),
     ordinal |-> as_u32(parse_f64(trim_ascii_start_polyfill(Slice(line1, 20, 32))))]

\* from_lines from the struct expression on
from_lines_fields(line1, line2) ==
    IF first_error(field_errors(line1, line2)).tag = "Err"
    THEN first_error(field_errors(line1, line2))
    ELSE [tag |-> "Ok", value |-> elements_of(line1, line2)]

from_lines_fields_first(line1, line2, overflow_checks) ==
    IF first_error(field_errors(line1, line2)).tag = "Err"
    THEN first_error(field_errors(line1, line2))
    ELSE IF checksum(line1, overflow_checks) = "Panic" THEN Panicked
    ELSE IF checksum(line1, overflow_checks) = "Bad"
    THEN TleError("BadChecksum", "Line1", 68, 69)
    ELSE IF checksum(line2, overflow_checks) = "Panic" THEN Panicked
    ELSE IF checksum(line2, overflow_checks) = "Bad"
    THEN TleError("BadChecksum", "Line2", 68, 69)
    ELSE [tag |-> "Ok", value |-> elements_of(line1, line2)]

\* from_lines from the loop over the two checksums on
from_lines_checksums(line1, line2, overflow_checks) ==
    IF checksum(line1, overflow_checks) = "Panic" THEN Panicked
    ELSE IF checksum(line1, overflow_checks) = "Bad"
    THEN TleError("BadChecksum", "Line1", 68, 69)
    ELSE IF checksum(line2, overflow_checks) = "Panic" THEN Panicked
    ELSE IF checksum(line2, overflow_checks) = "Bad"
    THEN TleError("BadChecksum", "Line2", 68, 69)
    ELSE from_lines_fields(line1, line2)

\* from_lines from let norad_id on
from_lines_norad_id(line1, line2, overflow_checks) ==
    IF parse_u64(trim_ascii_start_polyfill(Slice(line1, 2, 7))).tag = "Err"
    THEN TleError("ExpectedInteger", "Line1", 2, 7)
    ELSE IF parse_u64(trim_ascii_start_polyfill(Slice(line2, 2, 7))).tag = "Err"
    THEN TleError("ExpectedInteger", "Line2", 2, 7)
    ELSE IF parse_u64(trim_ascii_start_polyfill(Slice(line1, 2, 7))).value
            # parse_u64(trim_ascii_start_polyfill(Slice(line2, 2, 7))).value
    THEN TleError("NoradIdMismatch", "Both", 2, 7)
    ELSE from_lines_checksums(line1, line2, overflow_checks)

\* Elements::from_lines, built with or without overflow checks
from_lines(line1, line2, overflow_checks) ==
    IF Len(line1) # 69 THEN TleError("BadLength", "Line1", 0, Len(line1))
    ELSE IF Len(line2) # 69 THEN TleError("BadLength", "Line2", 0, Len(line2))
    ELSE IF line1[1] # "1" THEN TleError("BadFirstCharacter", "Line1", 0, 1)
    ELSE IF line2[1] # "2" THEN TleError("BadFirstCharacter", "Line2", 0, 1)
    ELSE IF first_not_space(line1, Line1Spaces) # -1
    THEN TleError("ExpectedSpace", "Line1", first_not_space(line1, Line1Spaces),
                  first_not_space(line1, Line1Spaces) + 1)
    ELSE IF first_not_space(line2, Line2Spaces) # -1
    THEN TleError("ExpectedSpace", "Line2", first_not_space(line2, Line2Spaces),
                  first_not_space(line2, Line2Spaces) + 1)
    ELSE from_lines_norad_id(line1, line2, overflow_checks)

\* Elements::from_tle
from_tle(object_name, line1, line2, overflow_checks) ==
    IF from_lines(line1, line2, overflow_checks).tag = "Ok"
    THEN [tag |-> "Ok",
          value |-> [from_lines(line1, line2, overflow_checks).value
                         EXCEPT !.object_name = object_name]]
    ELSE from_lines(line1, line2, overflow_checks)

RECURSIVE parse_2les_loop(_, _, _, _, _)
parse_2les_keeping(lines, line_buffer, elements_vec, overflow_checks, parsed) ==
    IF parsed.tag = "Ok"
    THEN parse_2les_loop(lines, line_buffer, TRUE, Append(elements_vec, parsed.value),
                         overflow_checks)
    ELSE parse_2les_loop(lines, line_buffer, TRUE, elements_vec, overflow_checks)

\* elements_vec.push(Elements::from_tle(..)?) and the rest of the loop
parse_2les_push(lines, line_buffer, elements_vec, overflow_checks, parsed) ==
    IF parsed.tag = "Ok"
    THEN parse_2les_loop(lines, line_buffer, TRUE, Append(elements_vec, parsed.value),
                         overflow_checks)
    ELSE parsed

\* the for loop of parse_2les over the lines left
parse_2les_loop(lines, line_buffer, first, elements_vec, overflow_checks) ==
    IF lines = <<>> THEN [tag |-> "Ok", value |-> elements_vec]
    ELSE IF first
    THEN parse_2les_loop(Tail(lines), Head(lines), FALSE, elements_vec, overflow_checks)
    ELSE parse_2les_push(Tail(lines), line_buffer, elements_vec, overflow_checks,
                         from_tle(None, line_buffer, Head(lines), overflow_checks))

\* parse_2les on the lines of tles
parse_2les(lines, overflow_checks) ==
    parse_2les_loop(lines, <<>>, TRUE, <<>>, overflow_checks)

RECURSIVE parse_3les_loop(_, _, _, _, _)
\* elements_vec.push(Elements::from_tle(..)?) and index = 0
parse_3les_push(lines, lines_buffer, elements_vec, overflow_checks, parsed) ==
    IF parsed.tag = "Ok"
    THEN parse_3les_loop(lines, lines_buffer, 0, Append(elements_vec, parsed.value),
                         overflow_checks)
    ELSE parsed

\* the for loop of parse_3les over the lines left
parse_3les_loop(lines, lines_buffer, index, elements_vec, overflow_checks) ==
    IF lines = <<>> THEN [tag |-> "Ok", value |-> elements_vec]
    ELSE IF index \in {0, 1}
    THEN parse_3les_loop(Tail(lines), [lines_buffer EXCEPT ![index + 1] = Head(lines)],
                         index + 1, elements_vec, overflow_checks)
    ELSE parse_3les_push(Tail(lines), lines_buffer, elements_vec, overflow_checks,
                         from_tle([tag |-> "Some", value |-> lines_buffer[1]],
                                  lines_buffer[2], Head(lines), overflow_checks))

\* parse_3les on the lines of tles
parse_3les(lines, overflow_checks) ==
    parse_3les_loop(lines, <<<<>>, <<>>>>, 0, <<>>, overflow_checks)


\* ------------------------------------------------------------------------
\* The epoch of the elements: Julian years since J2000
\* ------------------------------------------------------------------------

\* a datetime of chrono::NaiveDateTime by its accessors
NaiveDateTime(year, month, day, hour, minute, second, nanosecond) ==
    [year |-> year, month |-> month, day |-> day, hour |-> hour,
     minute |-> minute, second |-> second, nanosecond |-> nanosecond]

\* datetime.num_seconds_from_midnight()
num_seconds_from_midnight(datetime) ==
    3600 * datetime.hour + 60 * datetime.minute + datetime.second

\* the quotient of two i32, truncated toward zero
i32_div(a, b) == IF a >= 0 THEN a \div b ELSE -((-a) \div b)

\* the half of a u32
Limb == 2^16

\* a u32 by its two halves, and whether an operation that produced it
\* overflowed
u32(high, low, overflowed) == [high |-> high, low |-> low, overflowed |-> overflowed]

u32_checked(high, low, overflowed) ==
    u32(high % Limb, low, overflowed \/ high < 0 \/ high >= Limb)

\* the u32 of the bits of the sums of the halves
u32_wrapped(high, low, overflowed) ==
    u32_checked(high + low \div Limb, low % Limb, overflowed)

\* `value as u32` of an i32, and a u32 as it is
i32_as_u32(value) == u32((value \div Limb) % Limb, value % Limb, FALSE)

\* the operators *, +, - and / of u32, the left operand of * and the right
\* operand of / being literals
u32_mul(k, x) == u32_wrapped(k * x.high, k * x.low, x.overflowed)

u32_add(x, y) == u32_wrapped(x.high + y.high, x.low + y.low, x.overflowed \/ y.overflowed)

u32_sub(x, y) == u32_wrapped(x.high - y.high, x.low - y.low, x.overflowed \/ y.overflowed)

u32_div(x, k) == u32(x.high \div k, ((x.high % k) * Limb + x.low) \div k, x.overflowed)

\* a number of years as a real number: (days + (seconds + nanoseconds /
\* 10^9) / 86400) / 365.25 with days = 2^16 days_high + days_low, the
\* seconds within a day and the nanoseconds within a second
years_of_days(days_high, days_low, seconds, nanoseconds) ==
    [days_high |-> days_high + days_low \div Limb, days_low |-> days_low % Limb,
     seconds |-> seconds, nanoseconds |-> nanoseconds]

years_of_seconds(days_high, days_low, seconds, nanoseconds) ==
    years_of_days(days_high, days_low + seconds \div 86400, seconds % 86400, nanoseconds)

years(days_high, days_low, seconds, nanoseconds) ==
    years_of_seconds(days_high, days_low, seconds + nanoseconds \div 10^9,
                     nanoseconds % 10^9)

\* the day term with the month term as the comment above it writes it
day_term_of_the_comment(year, month, day) ==
    367 * year - i32_div(7 * (year + (month + 9) \div 12), 4)
    + 275 * (month \div 9) + day - 730531

\* the term in days of epoch, in i32
day_term(year, month, day) ==
    367 * year - i32_div(7 * (year + (month + 9) \div 12), 4)
    + (275 * month) \div 9 + day - 730531

\* julian_years_since_j2000(datetime), the expression of Elements::epoch():
\* the sum of its three terms in real numbers
julian_years_since_j2000(datetime) ==
    years(0, day_term(datetime.year, datetime.month, datetime.day),
          num_seconds_from_midnight(datetime) - 43200, datetime.nanosecond)

\* the sum in u32 of epoch_afspc_compatibility_mode, its operators applied
\* from left to right
afspc_day_number(year, month, day) ==
    u32_add(u32_add(u32_sub(u32_mul(367, i32_as_u32(year)),
                            u32_div(u32_mul(7, u32_add(i32_as_u32(year),
                                                       i32_as_u32((month + 9) \div 12))),
                                    4)),
                    i32_as_u32((275 * month) \div 9)),
            i32_as_u32(day))

\* the value in real numbers of epoch_afspc_compatibility_mode for the sum
\* in u32: 1721013.5 is 1721013 days and 43200 s
epoch_afspc_of(day_number, datetime) ==
    years(day_number.high, day_number.low + 1721013 - 2451545,
          43200 + 3600 * datetime.hour + 60 * datetime.minute + datetime.second,
          datetime.nanosecond)

\* Elements::epoch_afspc_compatibility_mode(): an overflow of the sum in
\* u32 panics in a build with overflow checks and wraps in the others
epoch_afspc_checked(day_number, datetime, overflow_checks) ==
    IF overflow_checks /\ day_number.overflowed THEN Panicked
    ELSE [tag |-> "Ok", value |-> epoch_afspc_of(day_number, datetime)]

julian_years_since_j2000_afspc_compatibility_mode(datetime, overflow_checks) ==
    epoch_afspc_checked(afspc_day_number(datetime.year, datetime.month, datetime.day),
                        datetime, overflow_checks)


\* ------------------------------------------------------------------------
\* The caller: the values it holds and the calls it makes
\* ------------------------------------------------------------------------

VARIABLES
    kozai,      \* the last call of Orbit::from_kozai_elements and its result
    constants,  \* the Result<Constants> of Constants::new, Pending before
    state,      \* the Option<ResonanceState> the caller holds
    owned,      \* the held state was returned by initial_state of constants
    farthest,   \* of the target times of the calls that returned on the held
                \* state, the one of largest magnitude (empty before a call)
    last,       \* the last call on constants: arguments and outcome
    call,       \* a call of propagate in progress: its position in
                \* propagate_from_state and the values of its let bindings
    series,     \* for each thread sharing &constants: the state it owns,
                \* the calls it made and the results they returned
    tle         \* the call on a two-line element set or on its elements

vars == <<kozai, constants, state, owned, farthest, last, call, series, tle>>

NoCall == [op |-> "none"]

Idle == [pc |-> "idle"]

\* the threads that hold a shared reference to constants
Threads == {1, 2}

\* the number of calls of a series
MaxCalls == 2

\* a thread before let mut state = constants.initial_state()
NotStarted == [pc |-> "new", state |-> None, calls |-> <<>>, results |-> <<>>]

\* the number of steps of the integrator that the target times reach
MaxSteps == 2

\* the target times of the propagations, in minutes since epoch
Times == {-(DELTA_T + 80), 0, 100, DELTA_T + 80, DELTA_T * MaxSteps}

\* the sidereal times of the epochs (the function epoch_to_sidereal_time)
Epochs == {0}

SiderealTimes == [epoch \in Epochs |-> 1500000]

\* tables and rates as third_body::perturbations_and_dots returns them
SolarPerturbations ==
    [kx0 |-> 120, kx1 |-> -250, kx2 |-> 310, kx3 |-> 150, kx4 |-> -90, kx5 |-> 60,
     kx6 |-> 40, kx7 |-> 75, kx8 |-> -35, kx9 |-> 20, kx10 |-> 210, kx11 |-> -110,
     third_body_mean_anomaly_0 |-> 1000000]

LunarPerturbations ==
    [kx0 |-> -60, kx1 |-> 90, kx2 |-> 130, kx3 |-> -220, kx4 |-> 45, kx5 |-> -80,
     kx6 |-> 15, kx7 |-> -50, kx8 |-> 65, kx9 |-> -10, kx10 |-> -95, kx11 |-> 160,
     third_body_mean_anomaly_0 |-> 4000000]

SolarDots ==
    [inclination |-> 2, right_ascension |-> -5, eccentricity |-> 1,
     argument_of_perigee |-> 7, mean_anomaly |-> -3]

LunarDots ==
    [inclination |-> -1, right_ascension |-> -9, eccentricity |-> 2,
     argument_of_perigee |-> 11, mean_anomaly |-> -4]

\* the terms of Constants::new without drag and with a strong drag
Terms(c1, c4) ==
    [c1 |-> c1, c4 |-> c4, c5 |-> 0, d2 |-> 0, d3 |-> 0, d4 |-> 0,
     k8 |-> 0, k9 |-> 0, k10 |-> 0, k12 |-> 0, k13 |-> 0,
     solar_perturbations |-> SolarPerturbations, solar_dots |-> SolarDots,
     lunar_perturbations |-> LunarPerturbations, lunar_dots |-> LunarDots]

Orbit(inclination, right_ascension, eccentricity, argument_of_perigee, mean_anomaly, mean_motion) ==
    [inclination |-> inclination, right_ascension |-> right_ascension,
     eccentricity |-> eccentricity, argument_of_perigee |-> argument_of_perigee,
     mean_anomaly |-> mean_anomaly, mean_motion |-> mean_motion]

\* the arguments of Constants::new of the propagated satellites: a
\* geostationary one of low inclination, a Molniya, a deep space one without
\* resonance, a low one without and with drag, and a geostationary one that
\* loses its eccentricity to a strong drag
PropagatedInputs ==
    {[geopotential |-> WGS84, epoch |-> 0, drag_term |-> 0, terms |-> Terms(0, 0),
      orbit_0 |-> Orbit(100000, -1000000, 1000, 2000000, 3000000, 43750000)],
     [geopotential |-> WGS72, epoch |-> 0, drag_term |-> 0, terms |-> Terms(0, 0),
      orbit_0 |-> Orbit(1119779, 4870720, 687715, 4621022, 353005, 87480000)],
     [geopotential |-> WGS84, epoch |-> 0, drag_term |-> 0, terms |-> Terms(0, 0),
      orbit_0 |-> Orbit(150000, -2000000, 200000, 1000000, 500000, 60000000)],
     [geopotential |-> WGS84, epoch |-> 0, drag_term |-> 0, terms |-> Terms(0, 0),
      orbit_0 |-> Orbit(500000, -2000000, 200000, 1000000, 500000, 60000000)],
     [geopotential |-> WGS84, epoch |-> 0, drag_term |-> 0, terms |-> Terms(0, 0),
      orbit_0 |-> Orbit(900000, 1000000, 1000, 2000000, 3000000, 650000000)],
     [geopotential |-> WGS84, epoch |-> 0, drag_term |-> 100, terms |-> Terms(30, 20000),
      orbit_0 |-> Orbit(900000, 1000000, 1000, 2000000, 3000000, 650000000)],
     [geopotential |-> WGS84, epoch |-> 0, drag_term |-> 100, terms |-> Terms(30, 20000),
      orbit_0 |-> Orbit(100000, -1000000, 500, 2000000, 3000000, 43750000)]}

\* the arguments of Constants::new on a grid around every limit of the
\* classification
GridMeanMotions ==
    {OneDayLow - 1, OneDayLow, OneDayLow + 1, 43750000,
     OneDayHigh - 1, OneDayHigh, OneDayHigh + 1,
     HalfDayLow - 1, HalfDayLow, HalfDayLow + 1,
     HalfDayHigh - 1, HalfDayHigh, HalfDayHigh + 1,
     NearEarthLimit - 1, NearEarthLimit, NearEarthLimit + 1, 650000000}

GridEccentricities ==
    {-1, 0, 1000, HalfDayEccentricity - 1, HalfDayEccentricity, 700000, FP - 1, FP}

GridInputs ==
    {[geopotential |-> WGS84, epoch |-> 0, drag_term |-> 0, terms |-> Terms(0, 0),
      orbit_0 |-> Orbit(1100000, 1000000, e, 2000000, 3000000, n)] :
         e \in GridEccentricities, n \in GridMeanMotions}

\* the state of another satellite's propagator after a propagation to two
\* days before its epoch, which a caller can hand over by mistake
OtherConstants ==
    new(WGS84, SiderealTimes, 0, 0,
        Orbit(500000, 0, 1000, 0, 0, 43000000), Terms(0, 0)).value

OtherState ==
    propagate_from_state(OtherConstants, -4 * DELTA_T, initial_state(OtherConstants),
                         FALSE).state

Init ==
    /\ kozai = Pending
    /\ constants = Pending
    /\ state = None
    /\ owned = FALSE
    /\ farthest = {}
    /\ last = NoCall
    /\ call = Idle
    /\ series = [k \in Threads |-> NotStarted]
    /\ tle = NoCall

\* Orbit::from_kozai_elements
FromKozaiElements(geopotential, inclination, right_ascension, eccentricity, argument_of_perigee, mean_anomaly, kozai_mean_motion) ==
    /\ kozai' = [tag |-> "Done",
                 geopotential |-> geopotential,
                 inclination |-> inclination,
                 right_ascension |-> right_ascension,
                 eccentricity |-> eccentricity,
                 argument_of_perigee |-> argument_of_perigee,
                 mean_anomaly |-> mean_anomaly,
                 kozai_mean_motion |-> kozai_mean_motion,
                 result |-> from_kozai_elements(geopotential, inclination,
                                                right_ascension, eccentricity,
                                                argument_of_perigee, mean_anomaly,
                                                kozai_mean_motion)]
    /\ UNCHANGED <<constants, state, owned, farthest, last, call, series, tle>>

\* Constants::new
New(input) ==
    /\ constants = Pending
    /\ constants' = new(input.geopotential, SiderealTimes, input.epoch,
                        input.drag_term, input.orbit_0, input.terms)
    /\ last' = [op |-> "new", input |-> input]
    /\ UNCHANGED <<kozai, state, owned, farthest, call, series, tle>>

\* let mut state = constants.initial_state()
InitialState ==
    /\ constants.tag = "Ok"
    /\ state' = initial_state(constants.value)
    /\ owned' = TRUE
    /\ farthest' = {}
    /\ last' = [op |-> "initial_state"]
    /\ UNCHANGED <<kozai, constants, call, series, tle>>

\* the caller takes the state of another satellite's propagator
StateOfOtherConstants ==
    /\ constants.tag = "Ok"
    /\ state' = OtherState
    /\ owned' = FALSE
    /\ farthest' = {}
    /\ last' = [op |-> "other_state"]
    /\ UNCHANGED <<kozai, constants, call, series, tle>>

\* constants.propagate_from_state(t, state.as_mut(), afspc_compatibility_mode)
PropagateFromState(t, afspc_compatibility_mode) ==
    /\ constants.tag = "Ok"
    /\ \E r \in {propagate_from_state(constants.value, t, state,
                                      afspc_compatibility_mode)} :
           /\ last' = [op |-> "propagate_from_state", t |-> t,
                       afspc_compatibility_mode |-> afspc_compatibility_mode,
                       given |-> state, farthest |-> farthest, outcome |-> r.outcome]
           /\ state' = r.state
           /\ farthest' = IF /\ state.tag = "Some"
                             /\ r.outcome.tag # "Panic"
                             /\ \A u \in farthest : Abs(t) > Abs(u)
                          THEN {t} ELSE farthest
    /\ UNCHANGED <<kozai, constants, owned, call, series, tle>>

\* constants.propagate(t)
Propagate(t) ==
    /\ constants.tag = "Ok"
    /\ last' = [op |-> "propagate", t |-> t, afspc_compatibility_mode |-> FALSE,
                given |-> state, farthest |-> farthest,
                outcome |-> propagate(constants.value, t)]
    /\ UNCHANGED <<kozai, constants, state, owned, farthest, call, series, tle>>

\* constants.propagate_afspc_compatibility_mode(t)
PropagateAfspcCompatibilityMode(t) ==
    /\ constants.tag = "Ok"
    /\ last' = [op |-> "propagate_afspc_compatibility_mode", t |-> t,
                afspc_compatibility_mode |-> TRUE,
                given |-> state, farthest |-> farthest,
                outcome |-> propagate_afspc_compatibility_mode(constants.value, t)]
    /\ UNCHANGED <<kozai, constants, state, owned, farthest, call, series, tle>>

\* constants.propagate(t) or constants.propagate_afspc_compatibility_mode(t)
\* up to the orbital elements: the call returns their error, or goes on
\* to the Kepler loop with ew = p38
OrbitalElements(t, afspc_compatibility_mode) ==
    /\ constants.tag = "Ok"
    /\ call.pc \in {"idle", "done"}
    /\ \E el \in {orbital_elements(constants.value, t, initial_state(constants.value),
                                    afspc_compatibility_mode)} :
           call' = IF el.tag = "Ok"
                   THEN [pc |-> "kepler", t |-> t,
                         afspc_compatibility_mode |-> afspc_compatibility_mode,
                         eccentricities |-> eccentricities(constants.value, t),
                         elements |-> el.value, q |-> kepler_inputs(el.value),
                         ew |-> kepler_inputs(el.value).p38, i |-> 0,
                         delta |-> None, pl |-> None, outcome |-> None]
                   ELSE [pc |-> "done", t |-> t,
                         afspc_compatibility_mode |-> afspc_compatibility_mode,
                         eccentricities |-> eccentricities(constants.value, t),
                         elements |-> None, q |-> None, ew |-> None, i |-> 0,
                         delta |-> None, pl |-> None,
                         outcome |-> [tag |-> el.tag, message |-> el.message]]
    /\ UNCHANGED <<kozai, constants, state, owned, farthest, last, series, tle>>

\* one turn of the for loop of propagate_from_state; i counts the turns
KeplerIteration ==
    /\ call.pc = "kepler"
    /\ \E delta \in {kepler_delta(call.ew, call.q.p38, call.q.axn, call.q.ayn)} :
           call' = IF kepler_converged(delta)
                   THEN [call EXCEPT !.pc = "radius", !.i = call.i + 1,
                                     !.delta = delta]
                   ELSE [call EXCEPT !.pc = IF call.i + 1 = KeplerIterations
                                            THEN "radius" ELSE "kepler",
                                     !.i = call.i + 1, !.delta = delta,
                                     !.ew = kepler_next(call.ew, delta)]
    /\ UNCHANGED <<kozai, constants, state, owned, farthest, last, series, tle>>

\* the rest of propagate_from_state: the check of pl and the prediction
SemiLatusRectum ==
    /\ call.pc = "radius"
    /\ call' = [call EXCEPT
                   !.pc = "done",
                   !.pl = radius(call.elements.a, call.q, call.ew).pl,
                   !.outcome = prediction_solved(constants.value.geopotential,
                                                 call.elements, call.q, call.ew)]
    /\ UNCHANGED <<kozai, constants, state, owned, farthest, last, series, tle>>

\* the target times of each series: both directions from the epoch
SeriesTimes ==
    [k \in Threads |-> IF k = 1
                       THEN {-(DELTA_T + 80), DELTA_T + 80, DELTA_T * MaxSteps}
                       ELSE {-(DELTA_T + 80), DELTA_T * MaxSteps}]

\* thread k: let mut state = constants.initial_state()
SeriesInitialState(k) ==
    /\ constants.tag = "Ok"
    /\ series[k].pc = "new"
    /\ series' = [series EXCEPT ![k] = [pc |-> "running",
                                        state |-> initial_state(constants.value),
                                        calls |-> <<>>, results |-> <<>>]]
    /\ UNCHANGED <<kozai, constants, state, owned, farthest, last, call, tle>>

\* thread k: constants.propagate_from_state(t, state.as_mut(), k = 2); the
\* call holds &constants and the only &mut to the state of its series, so
\* that no other thread runs on either while it does; a panic ends the thread
SeriesPropagateFromState(k, t) ==
    /\ constants.tag = "Ok"
    /\ series[k].pc = "running"
    /\ Len(series[k].calls) < MaxCalls
    /\ \E r \in {propagate_from_state(constants.value, t, series[k].state, k = 2)} :
           series' = [j \in Threads |->
                         [pc |-> IF j = k /\ r.outcome.tag = "Panic"
                                 THEN "panicked" ELSE series[j].pc,
                          state |-> states_after(series, k, r)[j],
                          calls |-> IF j = k THEN Append(series[j].calls, t)
                                    ELSE series[j].calls,
                          results |-> IF j = k THEN Append(series[j].results, r.outcome)
                                      ELSE series[j].results]]
    /\ UNCHANGED <<kozai, constants, state, owned, farthest, last, call, tle>>

\* Elements::from_tle(object_name, line1, line2)
FromTle(object_name, line1, line2, overflow_checks) ==
    /\ tle = NoCall
    /\ tle' = [op |-> "from_tle", object_name |-> object_name,
               line1 |-> line1, line2 |-> line2,
               overflow_checks |-> overflow_checks,
               outcome |-> from_tle(object_name, line1, line2, overflow_checks)]
    /\ UNCHANGED <<kozai, constants, state, owned, farthest, last, call, series>>

\* sgp4::parse_2les(tles), lines being tles.lines()
Parse2les(lines, overflow_checks) ==
    /\ tle = NoCall
    /\ tle' = [op |-> "parse_2les", lines |-> lines,
               overflow_checks |-> overflow_checks,
               outcome |-> parse_2les(lines, overflow_checks)]
    /\ UNCHANGED <<kozai, constants, state, owned, farthest, last, call, series>>

\* sgp4::parse_3les(tles), lines being tles.lines()
Parse3les(lines, overflow_checks) ==
    /\ tle = NoCall
    /\ tle' = [op |-> "parse_3les", lines |-> lines,
               overflow_checks |-> overflow_checks,
               outcome |-> parse_3les(lines, overflow_checks)]
    /\ UNCHANGED <<kozai, constants, state, owned, farthest, last, call, series>>

\* elements.epoch() on elements of the datetime
Epoch(datetime) ==
    /\ tle = NoCall
    /\ tle' = [op |-> "epoch", datetime |-> datetime,
               outcome |-> [tag |-> "Ok", value |-> julian_years_since_j2000(datetime)]]
    /\ UNCHANGED <<kozai, constants, state, owned, farthest, last, call, series>>

\* elements.epoch_afspc_compatibility_mode() on elements of the datetime
EpochAfspcCompatibilityMode(datetime, overflow_checks) ==
    /\ tle = NoCall
    /\ tle' = [op |-> "epoch_afspc_compatibility_mode", datetime |-> datetime,
               overflow_checks |-> overflow_checks,
               outcome |-> julian_years_since_j2000_afspc_compatibility_mode(datetime,
                                                                            overflow_checks)]
    /\ UNCHANGED <<kozai, constants, state, owned, farthest, last, call, series>>

\* the branch of deep_space_orbital_elements for a perturbed inclination
\* below 0.2 rad, on the values of its let bindings
Lyddane(inclination, delta_inclination, p4, p5, p22, p23, afspc_compatibility_mode) ==
    /\ call = Idle
    /\ ~FGe(inclination, LyddaneInclination)
    /\ call' = [pc |-> "lyddane", inclination |-> inclination,
                delta_inclination |-> delta_inclination, p5 |-> p5, p22 |-> p22,
                afspc_compatibility_mode |-> afspc_compatibility_mode,
                angles |-> perturbed_angles([inclination |-> inclination,
                                             delta_inclination |-> delta_inclination,
                                             p4 |-> p4, p5 |-> p5],
                                            p22, p23, afspc_compatibility_mode)]
    /\ UNCHANGED <<kozai, constants, state, owned, farthest, last, series, tle>>

\* state.integrate(.., t, ..) of propagate_from_state(t, Some(state), ..)
\* up to its loop: the check on the target time
Integrate(t) ==
    /\ constants.tag = "Ok"
    /\ state.tag = "Some"
    /\ owned
    /\ call.pc \in {"idle", "integrated"}
    /\ call' = [pc |-> IF integrate_panics(state, t) THEN "panicked" ELSE "integrate",
                t |-> t, entry |-> state.t, steps |-> 0]
    /\ UNCHANGED <<kozai, constants, state, owned, farthest, last, series, tle>>

\* one turn of the loop of integrate: the return or one step of the
\* integrator; the model follows a call for MaxSteps + 1 steps
IntegrateLoop ==
    /\ call.pc = "integrate"
    /\ \E d \in {resonance_derivatives(state, constants.value.orbit_0.argument_of_perigee,
                                       constants.value.method.resonant.lambda_dot_0,
                                       constants.value.method.resonant.resonance)} :
           IF integrate_returns(state, call.t)
           THEN /\ call' = [pc |-> "integrated", t |-> call.t, entry |-> call.entry,
                            steps |-> call.steps,
                            returned |->
                                integrate_result(
                                    state, d, constants.value.geopotential,
                                    constants.value.method.resonant.resonance,
                                    FRem(FAdd(constants.value.method.resonant.sidereal_time_0,
                                              FMul(SIDEREAL_SPEED, Minutes(call.t))),
                                         TwoPi),
                                    call.t, secular_right_ascension(constants.value, call.t),
                                    secular_argument_of_perigee(constants.value, call.t))]
                /\ UNCHANGED state
           ELSE /\ call.steps <= MaxSteps
                /\ state' = integrate_step(state, d, call.t)
                /\ call' = [call EXCEPT !.steps = @ + 1]
    /\ UNCHANGED <<kozai, constants, owned, farthest, last, series, tle>>

Next ==
    \/ \E input \in PropagatedInputs : New(input)
    \/ InitialState
    \/ StateOfOtherConstants
    \/ \E t \in Times, afspc_compatibility_mode \in BOOLEAN :
           PropagateFromState(t, afspc_compatibility_mode)
    \/ \E t \in Times : Propagate(t)
    \/ \E t \in Times : PropagateAfspcCompatibilityMode(t)

Spec == Init /\ [][Next]_vars

\* near earth orbits of a perigee around 220 km, by their eccentricity,
\* and around the eccentricity 1.0e-4
PerigeeEccentricities ==
    {0, EllipticEccentricity - 1, EllipticEccentricity, EllipticEccentricity + 1,
     5293, 5294, 5295, 5296, 5297, 10000, 200000}

PerigeeInputs ==
    {[geopotential |-> geopotential, epoch |-> 0, drag_term |-> 0, terms |-> Terms(0, 0),
      orbit_0 |-> Orbit(1100000, 1000000, e, 2000000, 3000000, n)] :
         geopotential \in {WGS84, WGS72}, e \in PerigeeEccentricities,
         n \in {650000000, 701180000, 706778400}}

NextNew ==
    \/ \E input \in GridInputs \cup PerigeeInputs : New(input)
    \/ InitialState

SpecNew == Init /\ [][NextNew]_vars

\* the satellites of the series: a resonant one and one without a
\* resonance state
SeriesInputs ==
    {[geopotential |-> WGS72, epoch |-> 0, drag_term |-> 0, terms |-> Terms(0, 0),
      orbit_0 |-> Orbit(1119779, 4870720, 687715, 4621022, 353005, 87480000)],
     [geopotential |-> WGS84, epoch |-> 0, drag_term |-> 0, terms |-> Terms(0, 0),
      orbit_0 |-> Orbit(500000, -2000000, 200000, 1000000, 500000, 60000000)]}

NextSeries ==
    \/ \E input \in SeriesInputs : New(input)
    \/ \E k \in Threads : SeriesInitialState(k)
    \/ \E k \in Threads : \E t \in SeriesTimes[k] : SeriesPropagateFromState(k, t)

SpecSeries == Init /\ [][NextSeries]_vars

\* orbits whose propagation ends in each of the outcomes: a low orbit and a
\* deep space orbit losing their eccentricity to a strong drag, a circular
\* deep space orbit, a deep space orbit of an eccentricity near 1, a low
\* orbit in a field of a strong third harmonic, a half-day resonant orbit
CallInputs ==
    {[geopotential |-> WGS84, epoch |-> 0, drag_term |-> 100, terms |-> Terms(30, 20000),
      orbit_0 |-> Orbit(900000, 1000000, 1000, 2000000, 3000000, 650000000)],
     [geopotential |-> WGS84, epoch |-> 0, drag_term |-> 100, terms |-> Terms(30, 20000),
      orbit_0 |-> Orbit(150000, -2000000, 1000, 1000000, 500000, 60000000)],
     [geopotential |-> WGS84, epoch |-> 0, drag_term |-> 0, terms |-> Terms(0, 0),
      orbit_0 |-> Orbit(150000, -2000000, 0, 1000000, 500000, 60000000)],
     [geopotential |-> WGS84, epoch |-> 0, drag_term |-> 0, terms |-> Terms(0, 0),
      orbit_0 |-> Orbit(150000, -2000000, 999980, 1000000, 500000, 60000000)],
     [geopotential |-> StrongJ3, epoch |-> 0, drag_term |-> 0, terms |-> Terms(0, 0),
      orbit_0 |-> Orbit(900000, 1000000, 700000, 2000000, 3000000, 650000000)],
     [geopotential |-> WGS72, epoch |-> 0, drag_term |-> 0, terms |-> Terms(0, 0),
      orbit_0 |-> Orbit(1119779, 4870720, 687715, 4621022, 353005, 87480000)]}

NextCall ==
    \/ \E input \in CallInputs : New(input)
    \/ \E t \in Times, afspc_compatibility_mode \in BOOLEAN :
           OrbitalElements(t, afspc_compatibility_mode)
    \/ KeplerIteration
    \/ SemiLatusRectum

SpecCall == Init /\ [][NextCall]_vars

\* the lines of the tests of tle.rs
\* 1 25544U 98067A   08264.51782528 -.00002182  00000-0 -11606-4 0  2927
IssLine1 ==
    <<"1", " ", "2", "5", "5", "4", "4", "U", " ", "9", "8", "0",
      "6", "7", "A", " ", " ", " ", "0", "8", "2", "6", "4", ".",
      "5", "1", "7", "8", "2", "5", "2", "8", " ", "-", ".", "0",
      "0", "0", "0", "2", "1", "8", "2", " ", " ", "0", "0", "0",
      "0", "0", "-", "0", " ", "-", "1", "1", "6", "0", "6", "-",
      "4", " ", "0", " ", " ", "2", "9", "2", "7">>

\* 2 25544  51.6416 247.4627 0006703 130.5360 325.0288 15.72125391563537
IssLine2 ==
    <<"2", " ", "2", "5", "5", "4", "4", " ", " ", "5", "1", ".",
      "6", "4", "1", "6", " ", "2", "4", "7", ".", "4", "6", "2",
      "7", " ", "0", "0", "0", "6", "7", "0", "3", " ", "1", "3",
      "0", ".", "5", "3", "6", "0", " ", "3", "2", "5", ".", "0",
      "2", "8", "8", " ", "1", "5", ".", "7", "2", "1", "2", "5",
      "3", "9", "1", "5", "6", "3", "5", "3", "7">>

\* 1 42982U 98067NE  20194.06866787  .00008489  00000-0  72204-4 0  9997
KestrelLine1 ==
    <<"1", " ", "4", "2", "9", "8", "2", "U", " ", "9", "8", "0",
      "6", "7", "N", "E", " ", " ", "2", "0", "1", "9", "4", ".",
      "0", "6", "8", "6", "6", "7", "8", "7", " ", " ", ".", "0",
      "0", "0", "0", "8", "4", "8", "9", " ", " ", "0", "0", "0",
      "0", "0", "-", "0", " ", " ", "7", "2", "2", "0", "4", "-",
      "4", " ", "0", " ", " ", "9", "9", "9", "7">>

\* 2 42982  51.6338 155.6245 0002758 166.8841 193.2228 15.70564504154944
KestrelLine2 ==
    <<"2", " ", "4", "2", "9", "8", "2", " ", " ", "5", "1", ".",
      "6", "3", "3", "8", " ", "1", "5", "5", ".", "6", "2", "4",
      "5", " ", "0", "0", "0", "2", "7", "5", "8", " ", "1", "6",
      "6", ".", "8", "8", "4", "1", " ", "1", "9", "3", ".", "2",
      "2", "2", "8", " ", "1", "5", ".", "7", "0", "5", "6", "4",
      "5", "0", "4", "1", "5", "4", "9", "4", "4">>

IssName == <<"I", "S", "S">>

KestrelName == <<"K", "E", "2", "M">>

\* the line with the character at the 0-based index replaced
Replace(line, index, character) == [line EXCEPT ![index + 1] = character]

\* the columns of line 1 and line 2 at which a character is replaced: the
\* first character, a separator, the satellite number, the
\* classification, fields of each kind and the checksum
Line1Columns == {0, 1, 6, 7, 9, 18, 20, 50, 63, 68}

Line2Columns == {0, 1, 6, 7, 26, 51, 67, 68}

Characters == {" ", "7", "X"}

\* the first lines and the second lines of the calls of from_tle: the
\* lines of the tests, a line of 68 characters, and the lines of the first
\* test with one character replaced
\* the line with the digit of its checksum as 69th character
Digits == <<"0", "1", "2", "3", "4", "5", "6", "7", "8", "9">>

Checksummed(line) ==
    [line EXCEPT ![69] = Digits[(checksum_fold(SubSeq(line, 1, 68)) % 10) + 1]]

\* two-digit years: the first and the last of each century
PivotYears == {<<"0", "0">>, <<"5", "6">>, <<"5", "7">>, <<"9", "9">>}

\* line 1 with the launch year and the year of the epoch replaced, and
\* with a blank international designator
WithYears(line, launch_year, year) ==
    Checksummed([line EXCEPT ![10] = launch_year[1], ![11] = launch_year[2],
                             ![19] = year[1], ![20] = year[2]])

WithoutDesignator(line) ==
    Checksummed([i \in 1 .. Len(line) |-> IF i \in 10 .. 17 THEN " " ELSE line[i]])

YearLine1s ==
    {WithYears(IssLine1, launch_year, year) : launch_year \in PivotYears, year \in PivotYears}
    \cup {WithoutDesignator(WithYears(IssLine1, <<"9", "8">>, year)) : year \in PivotYears}

Line1s ==
    {IssLine1, KestrelLine1, SubSeq(IssLine1, 1, 68)}
    \cup {Replace(IssLine1, index, character) :
             index \in Line1Columns, character \in Characters}
    \cup YearLine1s

Line2s ==
    {IssLine2, KestrelLine2, SubSeq(IssLine2, 1, 68)}
    \cup {Replace(IssLine2, index, character) :
             index \in Line2Columns, character \in Characters}

\* the number of groups of lines in the input of parse_2les and parse_3les
MaxGroups == 2

\* groups of two lines: two that parse, one of two different satellites,
\* one with its lines in the wrong order
Pairs ==
    {<<IssLine1, IssLine2>>, <<KestrelLine1, KestrelLine2>>,
     <<IssLine1, KestrelLine2>>, <<IssLine2, IssLine1>>}

\* groups of three lines: two that parse, one with a bad checksum
Triplets ==
    {<<IssName, IssLine1, IssLine2>>, <<KestrelName, KestrelLine1, KestrelLine2>>,
     <<IssName, IssLine1, Replace(IssLine2, 68, "X")>>}

\* the sequences of lines made of at most n of the groups
RECURSIVE Concatenations(_, _)
Concatenations(groups, n) ==
    IF n = 0 THEN {<<>>}
    ELSE {<<>>} \cup {group \o rest : group \in groups,
                                      rest \in Concatenations(groups, n - 1)}

\* the lines of the inputs of parse_2les and of parse_3les: groups and the
\* lines of a group cut short
Lines2les ==
    {groups \o rest : groups \in Concatenations(Pairs, MaxGroups),
                      rest \in {<<>>, <<KestrelLine1>>}}

Lines3les ==
    {groups \o rest : groups \in Concatenations(Triplets, MaxGroups),
                      rest \in {<<>>, <<KestrelName>>, <<KestrelName, KestrelLine1>>}}

\* one call of the parser of two-line element sets, in a build with or
\* without overflow checks
NextTle ==
    \/ \E object_name \in {None, [tag |-> "Some", value |-> IssName]},
          line1 \in Line1s, line2 \in Line2s, overflow_checks \in BOOLEAN :
           FromTle(object_name, line1, line2, overflow_checks)
    \/ \E lines \in Lines2les, overflow_checks \in BOOLEAN :
           Parse2les(lines, overflow_checks)
    \/ \E lines \in Lines3les, overflow_checks \in BOOLEAN :
           Parse3les(lines, overflow_checks)

SpecTle == Init /\ [][NextTle]_vars

\* the resonant satellites of the calls of integrate, and their target
\* times: the times of the propagations and the values of f64 that are
\* not finite
IntegrateInputs ==
    {[geopotential |-> WGS84, epoch |-> 0, drag_term |-> 0, terms |-> Terms(0, 0),
      orbit_0 |-> Orbit(100000, -1000000, 1000, 2000000, 3000000, 43750000)],
     [geopotential |-> WGS72, epoch |-> 0, drag_term |-> 0, terms |-> Terms(0, 0),
      orbit_0 |-> Orbit(1119779, 4870720, 687715, 4621022, 353005, 87480000)]}

IntegrateTimes == Times \cup {NaN, PosInf, NegInf}

\* the caller gets a state and calls integrate on it through
\* propagate_from_state; it holds no reference to the state during a call
NextIntegrate ==
    \/ \E input \in IntegrateInputs : New(input)
    \/ call.pc # "integrate" /\ InitialState
    \/ \E t \in IntegrateTimes : Integrate(t)
    \/ IntegrateLoop

SpecIntegrate == Init /\ [][NextIntegrate]_vars

\* a turn of the loop of integrate is possible: the return, or a step of
\* a call the model still follows
IntegrateLoopEnabled ==
    call.pc = "integrate" /\ (integrate_returns(state, call.t) \/ call.steps <= MaxSteps)

\* a turn of the loop of integrate as the call shows it: one more step
\* counted, or the return. In a call within the loop no other action of
\* NextIntegrate is possible, so these are the steps of IntegrateLoop.
IntegrateLoopTurn ==
    /\ IntegrateLoopEnabled
    /\ \/ call' = [call EXCEPT !.steps = @ + 1]
       \/ call'.pc = "integrated"

\* the loop of integrate takes its next turn: a running call neither waits
\* nor yields, which is the weak fairness of the turns of its loop
FairIntegrate == SpecIntegrate /\ WF_call(IntegrateLoopTurn)

\* the calendar of chrono: the days of a month and of a year
IsLeapYear(year) == year % 4 = 0 /\ (year % 100 # 0 \/ year % 400 = 0)

DaysInMonth(year, month) ==
    IF month = 2 THEN (IF IsLeapYear(year) THEN 29 ELSE 28)
    ELSE IF month \in {4, 6, 9, 11} THEN 30 ELSE 31

DaysInYear(year) == IF IsLeapYear(year) THEN 366 ELSE 365

\* the years a two-line element set can give, and every date of them
TleYears == 1957 .. 2056

TleDates ==
    {<<year, month, day>> \in TleYears \X (1 .. 12) \X (1 .. 31) :
        day <= DaysInMonth(year, month)}

\* the dates of the calls of both expressions: years of the two centuries
\* and the years around 0, the months on both sides of March and the last
\* one, the first and the last day of the month
SomeDates ==
    {<<year, month, day>> \in {-1, 0, 1, 1957, 1999, 2000, 2024, 2056} \X {1, 2, 3, 12} \X {1, 31} :
        day <= DaysInMonth(year, month)}

\* times of the day as <<hour, minute, second, nanosecond>>: midnight,
\* noon, the nanoseconds before them, and a leap second, which chrono
\* gives as second 59 and 10^9 nanoseconds or more
ClockTimes ==
    {<<0, 0, 0, 0>>, <<11, 59, 59, 999999999>>, <<12, 0, 0, 0>>,
     <<23, 59, 59, 999999999>>, <<23, 59, 59, 1500000000>>}

DateTimeOf(date, time) ==
    NaiveDateTime(date[1], date[2], date[3], time[1], time[2], time[3], time[4])

\* one call of an expression of the epoch: the default one at midnight and
\* at noon of every date, both at more times of fewer dates
NextEpoch ==
    \/ /\ tle = NoCall
       /\ \E date \in TleDates, time \in {<<0, 0, 0, 0>>, <<12, 0, 0, 0>>} :
              Epoch(DateTimeOf(date, time))
    \/ /\ tle = NoCall
       /\ \E date \in SomeDates, time \in ClockTimes : Epoch(DateTimeOf(date, time))
    \/ /\ tle = NoCall
       /\ \E date \in SomeDates, time \in ClockTimes, overflow_checks \in BOOLEAN :
              EpochAfspcCompatibilityMode(DateTimeOf(date, time), overflow_checks)

SpecEpoch == Init /\ [][NextEpoch]_vars

\* the values of the Lyddane branch: inclinations below 0.2 rad, secular
\* right ascensions over two turns on both sides of zero, on the quarter
\* turns and next to them, and perturbations of either sign
LyddaneInclinations == {0, 100000, 199999}

LyddanePerturbations == {-2000, 0, 2000}

QuarterTurn == Pi \div 2

LyddaneRightAscensions ==
    {k * QuarterTurn + d : k \in -8 .. 8, d \in {-1, 0, 1}}
        \cup {-TwoPi, TwoPi, -2 * TwoPi, 2 * TwoPi, -Pi, Pi, 1000000, -1000000}

NextLyddane ==
    /\ call = Idle
    /\ \E inclination \in LyddaneInclinations, delta_inclination \in LyddanePerturbations,
          p5 \in LyddanePerturbations, p22 \in LyddaneRightAscensions,
          afspc_compatibility_mode \in BOOLEAN :
              Lyddane(inclination, delta_inclination, 0, p5, p22, 0,
                      afspc_compatibility_mode)

SpecLyddane == Init /\ [][NextLyddane]_vars

\* the arguments of the calls of Orbit::from_kozai_elements
KozaiGeopotentials == {WGS84, WGS72, TinyKe}

KozaiInclinations == {0, 1100000, Pi \div 2}

KozaiRightAscensions == {0, -1000000}

KozaiEccentricities == {-500000, 0, 700000, 990000, FP, 1500000}

KozaiMeanMotions == {-1, 0, 1, 43750000, 650000000}

\* one call of Orbit::from_kozai_elements
NextKozai ==
    \E geopotential \in KozaiGeopotentials, inclination \in KozaiInclinations,
       right_ascension \in KozaiRightAscensions, eccentricity \in KozaiEccentricities,
       kozai_mean_motion \in KozaiMeanMotions :
        /\ kozai = Pending
        /\ FromKozaiElements(geopotential, inclination, right_ascension, eccentricity,
                             2000000, 3000000, kozai_mean_motion)

SpecKozai == Init /\ [][NextKozai]_vars

\* ------------------------------------------------------------------------
\* Properties
\* ------------------------------------------------------------------------

\* the constants are those of a resonant deep space propagator
IsResonant ==
    /\ constants.tag = "Ok"
    /\ constants.value.method.tag = "DeepSpace"
    /\ constants.value.method.resonant.tag = "Yes"

\* propagate_from_state(t) on a fresh state from initial_state()
Fresh(t, afspc_compatibility_mode) ==
    propagate_from_state(constants.value, t, initial_state(constants.value),
                         afspc_compatibility_mode)

\* the time of the integrator after a call that returned for the target u
Reached(u) == Sgn(u) * DELTA_T * (Abs(u) \div DELTA_T)

\* the last call was propagate_from_state with a state of the resonant
\* constants, obtained from initial_state and passed to every call since
ReusedCall ==
    /\ last.op = "propagate_from_state"
    /\ owned
    /\ IsResonant
    /\ last.given.tag = "Some"

\* C1: for a resonant deep space orbit, every call of propagate_from_state
\* that the integrator accepts on a reused ResonanceState returns the same
\* result, and leaves the same state (t, mean motion, lambda), as one call
\* for the same target time on a fresh state from initial_state().
ReusedStateEqualsFresh ==
    (ReusedCall /\ last.outcome.tag # "Panic")
        => /\ last.outcome = Fresh(last.t, last.afspc_compatibility_mode).outcome
           /\ state = Fresh(last.t, last.afspc_compatibility_mode).state

\* a second call that took the reused state from one step further
ReusedStateAdvanced ==
    /\ ReusedCall
    /\ last.given.t # 0
    /\ last.outcome.tag = "Ok"
    /\ state.t # last.given.t

\* C2: integrate called with the target t on a state of time t_i panics,
\* leaving the state as it was, exactly when (t_i # 0 and the signs of t and
\* t_i differ) or |t| < |t_i|; in every other case it does not panic.
IntegratePanicsExactly ==
    (last.op = "propagate_from_state" /\ IsResonant /\ last.given.tag = "Some")
        => /\ last.outcome.tag = "Panic"
                <=> \/ last.given.t # 0 /\ (last.given.t > 0) # (last.t >= 0)
                    \/ Abs(last.t) < Abs(last.given.t)
           /\ last.outcome.tag = "Panic" => state = last.given

\* a panic for the sign alone: the target is as far as the state's time
OppositeSignPanics ==
    /\ last.op = "propagate_from_state"
    /\ IsResonant
    /\ last.given.tag = "Some"
    /\ last.given.t > 0
    /\ last.t < 0
    /\ Abs(last.t) >= Abs(last.given.t)
    /\ last.outcome.tag = "Panic"
    /\ state = last.given

PropagateIsAFunction ==
    last.op \in {"propagate", "propagate_afspc_compatibility_mode"}
        => /\ last.outcome.tag # "Panic"
           /\ last.afspc_compatibility_mode = (last.op # "propagate")
           /\ last.outcome = Fresh(last.t, last.op # "propagate").outcome
           /\ state = last.given

\* a compatibility mode call for a time before the time of the state the
\* caller holds, whose prediction is not the one of the default mode
PropagateBehindHeldState ==
    /\ last.op = "propagate_afspc_compatibility_mode"
    /\ IsResonant
    /\ state.tag = "Some"
    /\ Abs(last.t) < Abs(state.t)
    /\ last.outcome.tag = "Ok"
    /\ last.outcome # Fresh(last.t, FALSE).outcome

\* C5: initial_state() returns Some(state) if and only if the constants are
\* deep space and resonant (one-day or half-day), None otherwise, and the
\* state starts at t = 0 with the epoch mean motion and lambda_0.
InitialStateIffResonant ==
    last.op = "initial_state"
        => /\ state.tag \in {"Some", "None"}
           /\ state.tag = "Some" <=> IsResonant
           /\ IsResonant =>
                  /\ constants.value.method.resonant.resonance.tag
                         \in {"OneDay", "HalfDay"}
                  /\ state = [tag |-> "Some", t |-> 0,
                              mean_motion |-> constants.value.orbit_0.mean_motion,
                              lambda |-> constants.value.method.resonant.lambda_0]

\* the initial state of a half-day resonant orbit
HalfDayInitialState ==
    /\ last.op = "initial_state"
    /\ IsResonant
    /\ constants.value.method.resonant.resonance.tag = "HalfDay"
    /\ state.tag = "Some"

\* the state argument does not fit the constants
Misuse ==
    IF last.given.tag = "Some" THEN ~IsResonant ELSE IsResonant

\* C6: propagate_from_state panics, and returns neither a prediction nor an
\* Err, when it is given Some(state) with a near earth or a non-resonant
\* deep space propagator, or None with a resonant deep space propagator.
MisusePanics ==
    (last.op = "propagate_from_state" /\ Misuse)
        => /\ last.outcome.tag = "Panic"
           /\ state = last.given

\* a near earth propagator given Some(state)
NearEarthGivenState ==
    /\ last.op = "propagate_from_state"
    /\ constants.value.method.tag = "NearEarth"
    /\ last.given.tag = "Some"
    /\ last.outcome.tag = "Panic"

\* C7: Constants::new builds the NearEarth variant if and only if
\* n'' > 2 pi / 225 and the DeepSpace variant if and only if
\* n'' <= 2 pi / 225.
MethodFromMeanMotion ==
    constants.tag = "Ok"
        => /\ constants.value.method.tag \in {"NearEarth", "DeepSpace"}
           /\ constants.value.method.tag = "NearEarth"
                  <=> constants.value.orbit_0.mean_motion > NearEarthLimit
           /\ constants.value.method.tag = "DeepSpace"
                  <=> constants.value.orbit_0.mean_motion <= NearEarthLimit

\* the constants of an orbit of mean motion 2 pi / 225
LimitIsDeepSpace ==
    /\ constants.tag = "Ok"
    /\ constants.value.orbit_0.mean_motion = NearEarthLimit
    /\ constants.value.method.tag = "DeepSpace"

\* the conditions of the one-day and the half-day resonance for n'' and e
OneDayCondition(n, e) == n > OneDayLow /\ n < OneDayHigh

HalfDayCondition(n, e) ==
    n >= HalfDayLow /\ n <= HalfDayHigh /\ e >= HalfDayEccentricity

\* the resonance of deep space constants: "OneDay", "HalfDay" or "No"
ResonanceOf(method) ==
    IF method.resonant.tag = "Yes" THEN method.resonant.resonance.tag ELSE "No"

\* C8: for a deep space orbit the resonance is OneDay iff
\* 0.0034906585 < n'' < 0.0052359877, HalfDay iff 0.00826 <= n'' <= 0.00924
\* and e >= 0.5, and No in every other case; the two conditions exclude
\* each other.
ResonanceFromMeanMotion ==
    (constants.tag = "Ok" /\ constants.value.method.tag = "DeepSpace")
        => /\ ResonanceOf(constants.value.method) = "OneDay"
                  <=> OneDayCondition(constants.value.orbit_0.mean_motion,
                                      constants.value.orbit_0.eccentricity)
           /\ ResonanceOf(constants.value.method) = "HalfDay"
                  <=> HalfDayCondition(constants.value.orbit_0.mean_motion,
                                       constants.value.orbit_0.eccentricity)
           /\ ResonanceOf(constants.value.method) \in {"OneDay", "HalfDay", "No"}
           /\ ~(/\ OneDayCondition(constants.value.orbit_0.mean_motion,
                                   constants.value.orbit_0.eccentricity)
                /\ HalfDayCondition(constants.value.orbit_0.mean_motion,
                                    constants.value.orbit_0.eccentricity))

\* the half-day resonance at the lower limits of n'' and e
HalfDayAtTheLimits ==
    /\ constants.tag = "Ok"
    /\ constants.value.orbit_0.mean_motion = HalfDayLow
    /\ constants.value.orbit_0.eccentricity = HalfDayEccentricity
    /\ constants.value.method.tag = "DeepSpace"
    /\ ResonanceOf(constants.value.method) = "HalfDay"

\* n'' for the arguments of the recorded call of from_kozai_elements
KozaiBrouwer ==
    brouwer_mean_motion(kozai.geopotential, kozai.inclination, kozai.eccentricity,
                        kozai.kozai_mean_motion)

\* C9: from_kozai_elements returns a mean motion error when the Kozai mean
\* motion is <= 0 and when the Brouwer mean motion n'' is <= 0; in every
\* other case it returns Ok with the five other elements copied and
\* mean_motion = n''.
KozaiMeanMotionChecked ==
    kozai.tag = "Done"
        => IF FLe(kozai.kozai_mean_motion, 0)
           THEN kozai.result = Err("the Kozai mean motion must be positive")
           ELSE IF FLe(KozaiBrouwer, 0)
           THEN kozai.result = Err("the Brouwer mean motion must be positive")
           ELSE kozai.result = Ok([inclination |-> kozai.inclination,
                                   right_ascension |-> kozai.right_ascension,
                                   eccentricity |-> kozai.eccentricity,
                                   argument_of_perigee |-> kozai.argument_of_perigee,
                                   mean_anomaly |-> kozai.mean_anomaly,
                                   mean_motion |-> KozaiBrouwer])

\* a positive Kozai mean motion whose Brouwer mean motion is not positive
BrouwerMeanMotionRejected ==
    /\ kozai.tag = "Done"
    /\ kozai.kozai_mean_motion > 0
    /\ kozai.result = Err("the Brouwer mean motion must be positive")

\* C10: from_kozai_elements fails with an eccentricity error whenever the
\* eccentricity is outside [0, 1).
KozaiEccentricityChecked ==
    (kozai.tag = "Done"
     /\ (FLt(kozai.eccentricity, 0) \/ FGe(kozai.eccentricity, FP)))
        => /\ kozai.result.tag = "Err"
           /\ kozai.result.message = "the eccentricity must be in the range [0, 1["

\* C11: Constants::new returns the eccentricity error exactly when the
\* eccentricity of the orbit is < 0 or >= 1, and Ok(Constants), holding the
\* orbit it was given, for every orbit with 0 <= e < 1 and a mean motion > 0.
NewChecksEccentricity ==
    last.op = "new"
        => /\ constants.tag \in {"Ok", "Err"}
           /\ constants.tag = "Err"
                  <=> \/ last.input.orbit_0.eccentricity < 0
                      \/ last.input.orbit_0.eccentricity >= FP
           /\ constants.tag = "Err"
                  => constants = Err("the eccentricity must be in the range [0, 1[")
           /\ (/\ last.input.orbit_0.eccentricity >= 0
               /\ last.input.orbit_0.eccentricity < FP
               /\ last.input.orbit_0.mean_motion > 0)
                  => /\ constants.tag = "Ok"
                     /\ constants.value.orbit_0 = last.input.orbit_0

\* the eccentricity 1 is rejected and the largest one below 1 is accepted
NewAtTheLimitOfEccentricity ==
    /\ last.op = "new"
    /\ \/ /\ last.input.orbit_0.eccentricity = FP
          /\ constants.tag = "Err"
       \/ /\ last.input.orbit_0.eccentricity = FP - 1
          /\ constants.tag = "Ok"

\* x is outside lo <= x < hi, as NaN is
OutsideHalfOpen(x, lo, hi) == ~(FGe(x, lo) /\ FLt(x, hi))

\* x is outside lo <= x <= hi, as NaN is
OutsideClosed(x, lo, hi) == ~(FGe(x, lo) /\ FLe(x, hi))

\* pl = a (1 - axn^2 - ayn^2) of the call in progress
SemiLatusRectumOfCall ==
    FMul(call.elements.a, FSub(FP, FAdd(Powi2(call.q.axn), Powi2(call.q.ayn))))

ErrorCarriesTimeAndEccentricity ==
    (call.pc = "done" /\ call.outcome.tag = "Err")
        => /\ "t" \in DOMAIN call.outcome
           /\ call.outcome.t = call.t
           /\ call.outcome.message # "negative semi-latus rectum"
                  => "eccentricity" \in DOMAIN call.outcome

\* the last call was propagate_from_state on a near earth orbit or on a deep
\* space orbit whose perturbed inclination at t is at least 0.2 rad
CallOffLyddane ==
    /\ last.op = "propagate_from_state"
    /\ \/ constants.value.method.tag = "NearEarth"
       \/ FGe(deep_space_perturbed(constants.value, last.t).inclination,
              LyddaneInclination)

\* C14: for every near earth orbit, and for every deep space orbit whose
\* perturbed inclination at t is >= 0.2 rad, propagate_from_state(t, s, true)
\* and propagate_from_state(t, s, false) return the same outcome and leave
\* the same state.
FlagOnlyMattersOnLyddane ==
    CallOffLyddane
        => /\ last.outcome
                  = propagate_from_state(constants.value, last.t, last.given,
                                         ~last.afspc_compatibility_mode).outcome
           /\ state = propagate_from_state(constants.value, last.t, last.given,
                                           ~last.afspc_compatibility_mode).state

\* a compatibility mode call that returns a prediction for a deep space
\* orbit above 0.2 rad whose secular right ascension is negative, where the
\* two remainders of the Lyddane expressions differ
InclinedWithNegativeRightAscension ==
    /\ CallOffLyddane
    /\ constants.value.method.tag = "DeepSpace"
    /\ last.afspc_compatibility_mode
    /\ secular_right_ascension(constants.value, last.t) < 0
    /\ last.outcome.tag = "Ok"

\* C15: under every interleaving of the calls of two threads that share
\* constants and each own a state obtained from initial_state(), each
\* series has the results and the last state it has when it runs alone.
SeriesAsAlone ==
    \A k \in Threads :
        series[k].pc # "new"
            => /\ series[k].results
                      = alone(constants.value, series[k].calls,
                              initial_state(constants.value), k = 2).results
               /\ series[k].state
                      = alone(constants.value, series[k].calls,
                              initial_state(constants.value), k = 2).state

\* both threads propagated a resonant orbit, one of them twice, and their
\* states are at different times of the integration
TwoSeriesApart ==
    /\ \A k \in Threads : series[k].pc = "running" /\ series[k].state.tag = "Some"
    /\ Len(series[1].calls) = 2
    /\ Len(series[2].calls) >= 1
    /\ \A k \in Threads : series[k].results[Len(series[k].calls)].tag = "Ok"
    /\ series[1].state # series[2].state
    /\ series[1].state # initial_state(constants.value)
    /\ series[2].state # initial_state(constants.value)

\* the loop has not run more than ten turns, runs no turn after the tenth,
\* and a call that used the ten turns without converging returns what
\* propagate returns, which is no error unless pl < 0
KeplerTurnsBounded ==
    /\ call.pc # "idle" => call.i <= KeplerIterations
    /\ call.pc = "kepler" => call.i < KeplerIterations
    /\ call.pc = "done"
           => call.outcome
                  = propagate_from_state(constants.value, call.t,
                                         initial_state(constants.value),
                                         call.afspc_compatibility_mode).outcome
    /\ (call.pc = "done" /\ call.i = KeplerIterations
            /\ IsFinite(call.delta) /\ Abs(call.delta) >= KeplerTolerance)
           => \/ call.outcome.tag = "Ok"
              \/ /\ call.outcome.tag = "Err"
                 /\ call.outcome.message = "negative semi-latus rectum"
                 /\ FLt(SemiLatusRectumOfCall, 0)

\* one turn of the loop from a finite E + w: a correction below the
\* tolerance ends the loop and leaves E + w as it is; a larger one moves
\* E + w by the correction, or by 0.95 towards it when it is beyond 0.95
KeplerTurn ==
    (call.pc = "kepler" /\ call'.pc \in {"kepler", "radius"} /\ IsFinite(call'.delta))
        => /\ call'.i = call.i + 1
           /\ call'.q = call.q
           /\ IF Abs(call'.delta) < KeplerTolerance
              THEN call'.ew = call.ew /\ call'.pc = "radius"
              ELSE /\ call'.pc = "radius" <=> call'.i = KeplerIterations
                   /\ call'.ew - call.ew
                          = IF call'.delta < -KeplerStep THEN -KeplerStep
                            ELSE IF call'.delta > KeplerStep THEN KeplerStep
                            ELSE call'.delta

\* C16: the Kepler loop of propagate_from_state runs at most 10 turns; it
\* stops at the first turn whose correction is below the tolerance without
\* applying it, otherwise it changes E + w by the correction clamped to
\* -0.95 .. 0.95; after 10 turns without convergence it reports no error
\* and the propagation goes on with the last iterate.
KeplerLoopBounded == []KeplerTurnsBounded /\ [][KeplerTurn]_vars

\* a call that used the ten turns, the last correction still above the
\* tolerance, and returned a prediction
TenTurnsWithoutConvergence ==
    /\ call.pc = "done"
    /\ call.i = KeplerIterations
    /\ IsFinite(call.delta)
    /\ Abs(call.delta) >= KeplerTolerance
    /\ call.outcome.tag = "Ok"

\* the number of the characters c among the first 68 of the line
CountOf(line, c) == Cardinality({i \in 1 .. 68 : line[i] = c})

\* the 69th character of the line is the digit of the sum of its digits
\* and minus signs modulo 10
HasChecksum(line) ==
    /\ line[69] \in {"0", "1", "2", "3", "4", "5", "6", "7", "8", "9"}
    /\ Code[line[69]] - Code["0"]
           = (CountOf(line, "-") + CountOf(line, "1") + 2 * CountOf(line, "2")
              + 3 * CountOf(line, "3") + 4 * CountOf(line, "4")
              + 5 * CountOf(line, "5") + 6 * CountOf(line, "6")
              + 7 * CountOf(line, "7") + 8 * CountOf(line, "8")
              + 9 * CountOf(line, "9")) % 10

\* two lines of 69 characters that start with 1 and 2
LengthsAndFirstCharacters(line1, line2) ==
    /\ Len(line1) = 69 /\ Len(line2) = 69
    /\ line1[1] = "1" /\ line2[1] = "2"

\* the separators of both lines are spaces
Separated(line1, line2) ==
    /\ \A index \in {1, 8, 17, 32, 43, 52, 61, 63} : line1[index + 1] = " "
    /\ \A index \in {1, 7, 16, 25, 33, 42, 51} : line2[index + 1] = " "

\* columns 3-7 of the line hold an unsigned integer after leading spaces
HasNumber(line) == AllDigits(Unsigned(trim_ascii_start_polyfill(Slice(line, 2, 7))))

NumberOf(line) == DigitsValue(Unsigned(trim_ascii_start_polyfill(Slice(line, 2, 7))))

\* the two lines pass every check before the checksums
SameSatellite(line1, line2) ==
    /\ LengthsAndFirstCharacters(line1, line2)
    /\ Separated(line1, line2)
    /\ HasNumber(line1) /\ HasNumber(line2)
    /\ NumberOf(line1) = NumberOf(line2)

\* C18: from_tle accepts a line only if its 69th character is the digit
\* equal to the sum of the digits of columns 1-68, plus 1 for every minus
\* sign, modulo 10; otherwise it returns the bad checksum error, line 1
\* being checked before line 2.
ChecksumDecides ==
    (tle.op = "from_tle" /\ SameSatellite(tle.line1, tle.line2))
        => /\ tle.outcome.tag = "Ok"
                  => HasChecksum(tle.line1) /\ HasChecksum(tle.line2)
           /\ ~HasChecksum(tle.line1)
                  => tle.outcome = TleError("BadChecksum", "Line1", 68, 69)
           /\ (HasChecksum(tle.line1) /\ ~HasChecksum(tle.line2))
                  => tle.outcome = TleError("BadChecksum", "Line2", 68, 69)

\* the errors of the fields parsed as numbers
NumericErrors ==
    {"ExpectedInteger", "ExpectedFloat", "ExpectedFloatWithAssumedDecimalPoint",
     "FloatWithAssumedDecimalPointTooLong", "FromYoOptFailed",
     "FromNumSecondsFromMidnightFailed"}

\* the outcome of the checks of the lengths, the first characters and the
\* separators, when one of them fails
StructureOutcome ==
    /\ Len(tle.line1) # 69
           => tle.outcome = TleError("BadLength", "Line1", 0, Len(tle.line1))
    /\ (Len(tle.line1) = 69 /\ Len(tle.line2) # 69)
           => tle.outcome = TleError("BadLength", "Line2", 0, Len(tle.line2))
    /\ (Len(tle.line1) = 69 /\ Len(tle.line2) = 69 /\ tle.line1[1] # "1")
           => tle.outcome = TleError("BadFirstCharacter", "Line1", 0, 1)
    /\ (Len(tle.line1) = 69 /\ Len(tle.line2) = 69 /\ tle.line1[1] = "1"
            /\ tle.line2[1] # "2")
           => tle.outcome = TleError("BadFirstCharacter", "Line2", 0, 1)
    /\ (LengthsAndFirstCharacters(tle.line1, tle.line2)
            /\ ~Separated(tle.line1, tle.line2))
           => /\ tle.outcome.tag = "Err"
              /\ tle.outcome.what = "ExpectedSpace"
              /\ tle.outcome.end = tle.outcome.start + 1
              /\ tle.outcome.line = "Line1"
                     <=> \E index \in {1, 8, 17, 32, 43, 52, 61, 63} :
                             tle.line1[index + 1] # " "
              /\ tle.outcome.line = "Line1"
                     => /\ tle.outcome.start \in {1, 8, 17, 32, 43, 52, 61, 63}
                        /\ tle.line1[tle.outcome.start + 1] # " "
              /\ tle.outcome.line = "Line2"
                     => /\ tle.outcome.start \in {1, 7, 16, 25, 33, 42, 51}
                        /\ tle.line2[tle.outcome.start + 1] # " "

\* the satellite numbers of columns 3-7 differ: as numbers when both are,
\* as characters otherwise
NumbersDiffer(line1, line2) ==
    IF HasNumber(line1) /\ HasNumber(line2)
    THEN NumberOf(line1) # NumberOf(line2)
    ELSE Slice(line1, 2, 7) # Slice(line2, 2, 7)

\* from_tle reports the first failing check in this order: the lengths,
\* the first characters, the separators, the mismatch of the satellite
\* numbers, and only then the checksums, the classification and the fields
\* parsed as numbers
StructureThenChecksum ==
    tle.op = "from_tle"
        => /\ StructureOutcome
           /\ (LengthsAndFirstCharacters(tle.line1, tle.line2)
                   /\ Separated(tle.line1, tle.line2)
                   /\ NumbersDiffer(tle.line1, tle.line2))
                  => tle.outcome = TleError("NoradIdMismatch", "Both", 2, 7)
           /\ (tle.outcome.tag = "Err"
                   /\ tle.outcome.what \in NumericErrors \cup {"UnknownClassification"})
                  => /\ LengthsAndFirstCharacters(tle.line1, tle.line2)
                     /\ Separated(tle.line1, tle.line2)
                     /\ ~NumbersDiffer(tle.line1, tle.line2)
                     /\ HasChecksum(tle.line1) /\ HasChecksum(tle.line2)

\* C19: from_tle reports the first failing check in this order: BadLength
\* of line 1 then line 2, BadFirstCharacter of line 1 then line 2,
\* ExpectedSpace at a separator of line 1 then of line 2, ExpectedInteger
\* when columns 3-7 of line 1 then of line 2 are no unsigned integer,
\* NoradIdMismatch when the two numbers differ, and only then the
\* checksums, after them the classification, after it the other fields.
ValidationOrder ==
    tle.op = "from_tle"
        => /\ StructureOutcome
           /\ (LengthsAndFirstCharacters(tle.line1, tle.line2)
                   /\ Separated(tle.line1, tle.line2))
                  => /\ ~HasNumber(tle.line1)
                            => tle.outcome = TleError("ExpectedInteger", "Line1", 2, 7)
                     /\ (HasNumber(tle.line1) /\ ~HasNumber(tle.line2))
                            => tle.outcome = TleError("ExpectedInteger", "Line2", 2, 7)
                     /\ (HasNumber(tle.line1) /\ HasNumber(tle.line2)
                             /\ NumberOf(tle.line1) # NumberOf(tle.line2))
                            => tle.outcome = TleError("NoradIdMismatch", "Both", 2, 7)
           /\ (tle.outcome.tag = "Ok"
                   \/ (tle.outcome.tag = "Err"
                          /\ tle.outcome.what \in {"BadChecksum", "UnknownClassification"})
                   \/ (tle.outcome.tag = "Err" /\ tle.outcome.what \in NumericErrors
                          /\ <<tle.outcome.start, tle.outcome.end>> # <<2, 7>>))
                  => SameSatellite(tle.line1, tle.line2)
           /\ (tle.outcome.tag = "Err" /\ tle.outcome.what = "BadChecksum")
                  => /\ tle.outcome.line = "Line1" => ~HasChecksum(tle.line1)
                     /\ tle.outcome.line = "Line2"
                            => HasChecksum(tle.line1) /\ ~HasChecksum(tle.line2)
           /\ (tle.outcome.tag = "Ok"
                   \/ (tle.outcome.tag = "Err"
                          /\ tle.outcome.what = "UnknownClassification")
                   \/ (tle.outcome.tag = "Err" /\ tle.outcome.what \in NumericErrors
                          /\ <<tle.outcome.start, tle.outcome.end>> # <<2, 7>>))
                  => HasChecksum(tle.line1) /\ HasChecksum(tle.line2)
           /\ (tle.outcome.tag = "Err" /\ tle.outcome.what = "UnknownClassification")
                  <=> (SameSatellite(tle.line1, tle.line2)
                          /\ HasChecksum(tle.line1) /\ HasChecksum(tle.line2)
                          /\ tle.line1[8] \notin {"U", "C", "S"})

\* a call whose two lines hold the same characters that are no number in
\* columns 3-7 and a wrong checksum: it reports the number
NumberBeforeChecksum ==
    /\ tle.op = "from_tle"
    /\ LengthsAndFirstCharacters(tle.line1, tle.line2)
    /\ Separated(tle.line1, tle.line2)
    /\ Slice(tle.line1, 2, 7) = Slice(tle.line2, 2, 7)
    /\ ~HasChecksum(tle.line1)
    /\ tle.outcome = TleError("ExpectedInteger", "Line1", 2, 7)

\* the lines of the i-th group of k lines
Group(lines, k, i) == SubSeq(lines, k * (i - 1) + 1, k * i)

\* what from_tle returns for the i-th group of the input: a pair of
\* parse_2les, a triplet of parse_3les
GroupParsed(i) ==
    IF tle.op = "parse_2les"
    THEN from_tle(None, Group(tle.lines, 2, i)[1], Group(tle.lines, 2, i)[2],
                  tle.overflow_checks)
    ELSE from_tle([tag |-> "Some", value |-> Group(tle.lines, 3, i)[1]],
                  Group(tle.lines, 3, i)[2], Group(tle.lines, 3, i)[3],
                  tle.overflow_checks)

\* the number of complete groups of the input
Groups == Len(tle.lines) \div (IF tle.op = "parse_2les" THEN 2 ELSE 3)

\* C20: parse_2les takes the lines by pairs and parse_3les by triplets;
\* when every complete group parses they return the Elements of the
\* groups in the order of the input, with the first line of the triplet as
\* object_name in parse_3les and None in parse_2les, and ignore the lines
\* of an incomplete last group; otherwise they return the error of the
\* first group that fails and no list.
GroupsInOrder ==
    tle.op \in {"parse_2les", "parse_3les"}
        => IF \A i \in 1 .. Groups : GroupParsed(i).tag = "Ok"
           THEN /\ tle.outcome.tag = "Ok"
                /\ tle.outcome.value = [i \in 1 .. Groups |-> GroupParsed(i).value]
                /\ \A i \in 1 .. Groups :
                       tle.outcome.value[i].object_name
                           = IF tle.op = "parse_2les" THEN None
                             ELSE [tag |-> "Some", value |-> tle.lines[3 * i - 2]]
           ELSE \E i \in 1 .. Groups :
                    /\ \A j \in 1 .. i - 1 : GroupParsed(j).tag = "Ok"
                    /\ GroupParsed(i).tag = "Err"
                    /\ tle.outcome = GroupParsed(i)

\* a call of parse_3les on two triplets and the first two lines of a
\* third returns the Elements of the two, each with its name
TwoTripletsAndTwoLines ==
    /\ tle.op = "parse_3les"
    /\ Len(tle.lines) = 8
    /\ tle.outcome.tag = "Ok"
    /\ Len(tle.outcome.value) = 2
    /\ tle.outcome.value[1].object_name = [tag |-> "Some", value |-> IssName]
    /\ tle.outcome.value[2].object_name = [tag |-> "Some", value |-> KestrelName]
    /\ tle.outcome.value[1].norad_id # tle.outcome.value[2].norad_id

\* the days from 2000-01-01 to a date, counted on the calendar
RECURSIVE DaysBeforeYear(_)
DaysBeforeYear(year) ==
    IF year = 2000 THEN 0
    ELSE IF year > 2000 THEN DaysBeforeYear(year - 1) + DaysInYear(year - 1)
    ELSE DaysBeforeYear(year + 1) - DaysInYear(year)

RECURSIVE DaysBeforeMonth(_, _)
DaysBeforeMonth(year, month) ==
    IF month = 1 THEN 0
    ELSE DaysBeforeMonth(year, month - 1) + DaysInMonth(year, month - 1)

DaysFrom2000(year, month, day) ==
    DaysBeforeYear(year) + DaysBeforeMonth(year, month) + day - 1

\* the day term with the floors of the quotients
DayTermOfFloors(year, month, day) ==
    367 * year - (7 * (year + (month + 9) \div 12)) \div 4
    + (275 * month) \div 9 + day - 730531

AfspcAsDefault ==
    tle.op = "epoch_afspc_compatibility_mode"
        => tle.outcome = [tag |-> "Ok", value |-> julian_years_since_j2000(tle.datetime)]

\* the number the two digits at the 1-based index of the line write
TwoDigits(line, index) ==
    10 * (Code[line[index]] - Code["0"]) + (Code[line[index + 1]] - Code["0"])

\* the year of the two digits: 57 to 99 are years of 1900, 00 to 56 of 2000
CenturyOf(digits) == IF digits >= 57 THEN 1900 + digits ELSE 2000 + digits

\* C23: the Elements from_tle returns have the year of the epoch of the
\* digits in columns 19-20, and in their designator the launch year of the
\* digits in columns 10-11, both 2000 + yy for yy < 57 and 1900 + yy
\* otherwise, hence from 1957 to 2056; a designator field of spaces only
\* gives None.
YearsOfTwoDigits ==
    (tle.op = "from_tle" /\ tle.outcome.tag = "Ok")
        => /\ tle.outcome.value.year \in 1957 .. 2056
           /\ (IsAsciiDigit(tle.line1[19]) /\ IsAsciiDigit(tle.line1[20]))
                  => tle.outcome.value.year = CenturyOf(TwoDigits(tle.line1, 19))
           /\ IF \A i \in 10 .. 17 : tle.line1[i] = " "
              THEN tle.outcome.value.international_designator = None
              ELSE /\ tle.outcome.value.international_designator.tag = "Some"
                   /\ tle.outcome.value.international_designator.launch_year \in 1957 .. 2056
                   /\ (IsAsciiDigit(tle.line1[10]) /\ IsAsciiDigit(tle.line1[11]))
                          => tle.outcome.value.international_designator.launch_year
                                 = CenturyOf(TwoDigits(tle.line1, 10))

\* from_tle returned Elements of the year 1957 launched in 2056, and
\* Elements of the year 2056 without a designator
YearsOnBothSidesOfThePivot ==
    /\ tle.op = "from_tle"
    /\ tle.outcome.tag = "Ok"
    /\ \/ /\ TwoDigits(tle.line1, 19) = 57
          /\ tle.outcome.value.year = 1957
          /\ tle.outcome.value.international_designator.tag = "Some"
          /\ tle.outcome.value.international_designator.launch_year = 2056
       \/ /\ TwoDigits(tle.line1, 19) = 56
          /\ tle.outcome.value.year = 2056
          /\ tle.outcome.value.international_designator = None

\* the time of the integrator that a call of integrate to t leaves
WholeSteps(t) == Sgn(t) * DELTA_T * (Abs(t) \div DELTA_T)

IsFiniteTime(t) == t \notin {NaN, PosInf, NegInf}

\* C24: after every call of integrate that returned, for a finite target
\* t, the time of the state is sign(t) 720 floor(|t| / 720), a multiple of
\* 720 at less than 720 from t and not past it; the time of a state changes
\* only in integrate, and in a call to a finite target by 720 at once, away
\* from 0 and not past the target.
IntegratorTimeInWholeSteps ==
    /\ []((call.pc = "integrated" /\ IsFiniteTime(call.t))
              => /\ call.returned.state.t = WholeSteps(call.t)
                 /\ call.returned.state.t % DELTA_T = 0
                 /\ Abs(call.t) - Abs(call.returned.state.t) >= 0
                 /\ Abs(call.t) - Abs(call.returned.state.t) < DELTA_T)
    /\ [][(state.tag = "Some" /\ state' # state)
              => \/ call.pc # "integrate" /\ state' = initial_state(constants.value)
                 \/ call.pc = "integrate" /\ ~IsFiniteTime(call.t)
                 \/ /\ call.pc = "integrate"
                    /\ Abs(state'.t) = Abs(state.t) + DELTA_T
                    /\ Abs(state'.t) <= Abs(call.t)]_vars

\* a second call of integrate on a state, to a time two steps from the
\* epoch, returned after one step
SecondCallReturned ==
    /\ call.pc = "integrated"
    /\ call.entry = DELTA_T
    /\ call.steps = 1
    /\ call.t = 2 * DELTA_T
    /\ state.t = 2 * DELTA_T

PerigeeAltitude(self) ==
    FMul(self.geopotential.ae,
         FSub(FMul(self.method.a0, FSub(FP, self.orbit_0.eccentricity)), FP))

DeltaEccentricityOfCall ==
    deep_space_perturbed(constants.value, call.t).delta_eccentricity

RightAscensionWithinPi ==
    call.pc = "lyddane"
        => /\ Abs(lyddane_p30(call.inclination, call.delta_inclination,
                              call.p5, call.p22)) <= Pi
           /\ call.angles.right_ascension - lyddane_p30(call.inclination,
                                                        call.delta_inclination,
                                                        call.p5, call.p22)
                  \in {TwoPi, -TwoPi, 0}
           /\ Abs(call.angles.right_ascension - Rem(call.p22, TwoPi)) <= Pi

\* a branch with a negative secular right ascension whose p30 is moved down
\* by one turn
MovedDownOnNegativeRightAscension ==
    /\ call.pc = "lyddane"
    /\ call.p22 < 0
    /\ call.angles.right_ascension
           = lyddane_p30(call.inclination, call.delta_inclination,
                         call.p5, call.p22) - TwoPi

\* the state that the integrator leaves when the last call passes it the
\* given state and the target time, before any check of the elements
IntegratedStateOfLast ==
    integrated_elements(constants.value, constants.value.method.resonant,
                        last.given, last.t,
                        secular_right_ascension(constants.value, last.t),
                        secular_argument_of_perigee(constants.value, last.t)).state

\* C29: for a resonant deep space orbit, propagate_from_state advances the
\* ResonanceState to the target time before the checks of the eccentricity
\* and of the semi-latus rectum: whether the call returns Ok or Err, the state
\* it leaves is the one the integrator reaches from the given state and t,
\* whatever the compatibility mode, and a call on the state that an earlier
\* call left, failed or not, returns what it returns on a fresh state.
StateAdvancedBeforeTheChecks ==
    (/\ last.op = "propagate_from_state"
     /\ IsResonant
     /\ last.given.tag = "Some"
     /\ last.outcome.tag # "Panic")
        => /\ last.outcome.tag \in {"Ok", "Err"}
           /\ state = IntegratedStateOfLast
           /\ state = propagate_from_state(constants.value, last.t, last.given,
                                           ~last.afspc_compatibility_mode).state
           /\ owned
                  => /\ state.t = Reached(last.t)
                     /\ last.outcome
                            = Fresh(last.t, last.afspc_compatibility_mode).outcome

\* a call that returns an error and advances a state which an earlier call,
\* returning an error as well, had advanced before
ErrorOnTheStateOfAnError ==
    /\ ReusedCall
    /\ last.outcome.tag = "Err"
    /\ last.given.t # 0
    /\ state.t # last.given.t
    /\ \E u \in last.farthest : Fresh(u, FALSE).outcome.tag = "Err"

\* C30: from_tle never aborts on malformed input: for every pair of lines
\* it returns Ok or an error value, and a 69th character below '0' (a space,
\* for example) on a line that passes the checks before the checksum gives
\* the bad checksum error, the subtraction `content[68] - b'0'` never
\* underflowing.
FromTleReturns ==
    tle.op = "from_tle"
        => /\ tle.outcome.tag \in {"Ok", "Err"}
           /\ (/\ SameSatellite(tle.line1, tle.line2)
               /\ Code[tle.line1[69]] < Code["0"])
                  => tle.outcome = TleError("BadChecksum", "Line1", 68, 69)

=============================================================================
